---- MODULE Spec2Model ----
(***************************************************************************)
(* Platform status aggregator (portal-api): the canonical service          *)
(* contract, the normalizer, the aggregator and the request handlers.      *)
(*                                                                         *)
(* Python values are modelled as tagged records [t, s, f]:                 *)
(*   t  the Python type ("none", "str", "int", "list", "dict"),            *)
(*   s  what str() of the value gives,                                     *)
(*   f  the items of a dict (the empty function for every other type).     *)
(***************************************************************************)
EXTENDS Integers, Sequences, FiniteSets, TLC

VARIABLES
    clock,          \* what utc_now_iso() reads
    so_args,        \* arguments of a service_obj call
    so_ret,         \* what service_obj returned
    blob,           \* raw probe result given to the normalizer
    fallback_name,  \* caller-supplied fallback name
    us_ret,         \* what contract._unwrap_service returned
    uc_ret,         \* what server._unwrap_to_contract returned
    us_again,       \* _unwrap_service applied to its own result
    services,       \* list of service records given to the aggregator
    platform_status,\* what compute_platform_status returned
    fraction,       \* what operational_fraction returned
    env,            \* the deployment: settings and how the backing systems answer
    request,        \* the HTTP request being handled
    response,       \* the HTTP response: status code and JSON body
    pg_call,        \* a call of postgres_catalog_tables or postgres_search
    pg_result,      \* what the call returned or raised
    time,           \* what int(time.time()) reads
    _CACHE,         \* dbt_catalog_minio._CACHE: cache key -> {"ts", "payload"}
    store,          \* the version of catalog.json the object store holds, per key
    last_fetch,     \* the payload of the latest successful fetch, per key
    calls,          \* per thread, its call of _load_catalog
    sweep,          \* how far a handler is in its sequence of probe calls
    assets          \* a client paging through the tables of the catalog document

contractVars == <<so_args, so_ret, blob, fallback_name, us_ret, uc_ret, us_again>>

aggVars == <<services, platform_status, fraction>>

httpVars == <<env, request, response>>

catalogVars == <<pg_call, pg_result>>

cacheVars == <<time, _CACHE, store, last_fetch, calls>>

vars == <<clock, contractVars, aggVars, httpVars, catalogVars, cacheVars, sweep, assets>>

----------------------------------------------------------------------------
(* Bounds *)

MaxClock == 2

\* longest list of arbitrary records given to the aggregator
MaxLen == 2

\* most services that are not OPERATIONAL in a full sweep given to the aggregator
MaxOff == 2

\* most settings or backing systems off nominal in one deployment
MaxFaults == 3

\* most tables in the database
MaxTables == 2001

\* most versions of one catalog.json
\* the node entries, the source entries and the page calls of one client
MaxNodes == 2
MaxSources == 1
MaxPages == 4

MaxVersion == 2

----------------------------------------------------------------------------
(* Python values *)

NoFields == [k \in {} |-> k]

PyNone == [t |-> "none", s |-> "None", f |-> NoFields]

PyStr(x) == [t |-> "str", s |-> x, f |-> NoFields]

PyInt(x) == [t |-> "int", s |-> x, f |-> NoFields]

PyList(x) == [t |-> "list", s |-> x, f |-> NoFields]

PyBool(b) == [t |-> "bool", s |-> IF b THEN "True" ELSE "False", f |-> NoFields]

PyDict(items) == [t |-> "dict", s |-> "{...}", f |-> items]

EmptyDict == PyDict(NoFields)

\* a value that stands for "the call has not been made"
NotCalled == [t |-> "not_called", s |-> "", f |-> NoFields]

\* an exception leaving the function
Raised(what) == [t |-> "raise", s |-> what, f |-> NoFields]

IsDict(v) == v.t = "dict"

IsStr(v) == v.t = "str"

\* bool(v)
Truthy(v) ==
    CASE v.t = "none" -> FALSE
      [] v.t = "str"  -> v.s # ""
      [] v.t = "int"  -> v.s # "0"
      [] v.t = "bool" -> v.s = "True"
      [] v.t = "list" -> v.s # "[]"
      [] v.t = "dict" -> DOMAIN v.f # {}
      [] OTHER        -> TRUE

\* a or b
Or(a, b) == IF Truthy(a) THEN a ELSE b

\* d.get(k)
Get(d, k) == IF k \in DOMAIN d.f THEN d.f[k] ELSE PyNone

\* str(v)
Str(v) == PyStr(v.s)

\* app.util.time.utc_now_iso(): an ISO-8601 timestamp of the current time
utc_now_iso(now) == PyStr(<<"2026-01-06T00:00:01Z", "2026-01-06T00:00:02Z",
                            "2026-01-06T00:00:03Z", "2026-01-06T00:00:04Z">>[now])

----------------------------------------------------------------------------
(* probes/contract.py *)

STATUSES == {"OPERATIONAL", "DEGRADED", "DOWN", "INFO"}

REQUIRED_SERVICES_ORDER ==
    <<"kubernetes", "postgres", "minio", "ingress_tls", "airbyte",
      "dbt", "n8n", "zammad", "metabase">>

\* the status coercion of service_obj: `if status not in STATUSES: status = "INFO"`
CoerceStatus_Down(status) ==
    IF IsStr(status) /\ status.s \in STATUSES THEN status ELSE PyStr("DOWN")

CoerceStatus(status) ==
    IF IsStr(status) /\ status.s \in STATUSES THEN status ELSE PyStr("INFO")

\* out_links of service_obj: exactly ui and api, None/absent become ""
OutLinks_PassThrough(links) == links

OutLinks(links) ==
    PyDict([ui  |-> Or(Get(links, "ui"), PyStr("")),
            api |-> Or(Get(links, "api"), PyStr(""))])

\* the evidence block of service_obj
OutEvidence(evidence, evidence_type, evidence_details) ==
    IF evidence = PyNone
    THEN PyDict([type    |-> Or(evidence_type, PyStr("INFO")),
                 details |-> Or(evidence_details, EmptyDict)])
    ELSE LET ev == IF IsDict(evidence)
                   THEN evidence
                   ELSE PyDict([type |-> PyStr("INFO"), details |-> EmptyDict])
         IN  PyDict([type    |-> Or(Get(ev, "type"), PyStr("INFO")),
                     details |-> Or(Get(ev, "details"), EmptyDict)])

\* service_obj(name, status, reason, last_checked, links, evidence,
\*             evidence_type, evidence_details); a holds the arguments
service_obj(a, now) ==
    LET links == Or(a.links, EmptyDict)
    IN  IF ~IsDict(links)
        THEN Raised("AttributeError")      \* links.get on a non-mapping
        ELSE PyDict([service      |-> a.name,
                     name         |-> a.name,
                     status       |-> CoerceStatus(a.status),
                     reason       |-> Or(a.reason, PyStr("")),
                     last_checked |-> IF Truthy(a.last_checked)
                                      THEN a.last_checked
                                      ELSE utc_now_iso(now),
                     links        |-> OutLinks(links),
                     evidence     |-> OutEvidence(a.evidence, a.evidence_type,
                                                  a.evidence_details)])

\* the keyword defaults of service_obj
SoArgs(name, status, reason, last_checked, links, evidence) ==
    [name |-> name, status |-> status, reason |-> reason,
     last_checked |-> last_checked, links |-> links, evidence |-> evidence,
     evidence_type |-> PyNone, evidence_details |-> PyNone]

\* which mapping the normalizer reads its fields from
ResolveBase_AnyService(b) ==
    IF IsDict(b) /\ "service" \in DOMAIN b.f
    THEN (IF IsDict(Get(b, "service")) THEN Get(b, "service") ELSE EmptyDict)
    ELSE IF IsDict(b) THEN b ELSE EmptyDict

ResolveBase(b) ==
    IF IsDict(b) /\ IsDict(Get(b, "service")) THEN Get(b, "service")
    ELSE IF IsDict(b) THEN b
    ELSE EmptyDict

\* name = base.get("name") or (base.get("service") if str) or fallback_name
ResolveName_NoService(base, fallback) == Or(Get(base, "name"), fallback)

ResolveName(base, fallback) ==
    Or(Or(Get(base, "name"),
          IF IsStr(Get(base, "service")) THEN Get(base, "service") ELSE PyNone),
       fallback)

\* status = base.get("status") or "DOWN"
ResolveStatus_Operational(base) == Or(Get(base, "status"), PyStr("OPERATIONAL"))

ResolveStatus(base) == Or(Get(base, "status"), PyStr("DOWN"))

\* the body shared by _unwrap_service and _unwrap_to_contract
Normalize(b, fallback, now) ==
    LET base     == ResolveBase(b)
        links    == IF IsDict(Get(base, "links")) THEN Get(base, "links") ELSE EmptyDict
        evidence == IF IsDict(Get(base, "evidence")) THEN Get(base, "evidence") ELSE PyNone
    IN  service_obj(
            SoArgs(Str(ResolveName(base, fallback)),
                   Str(ResolveStatus(base)),
                   Str(Or(Get(base, "reason"), PyStr(""))),
                   Str(Or(Get(base, "last_checked"), utc_now_iso(now))),
                   PyDict([ui  |-> Or(Get(links, "ui"), PyStr("")),
                           api |-> Or(Get(links, "api"), PyStr(""))]),
                   evidence),
            now)

\* contract._unwrap_service(blob, fallback_name="unknown")
_unwrap_service(b, fallback, now) == Normalize(b, fallback, now)

\* server._unwrap_to_contract(blob, fallback_name)
_unwrap_to_contract(b, fallback, now) == Normalize(b, fallback, now)

\* norm = [_unwrap_service(s) for s in (services or [])]
NormAll(svcs, now) ==
    [i \in 1..Len(svcs) |-> _unwrap_service(svcs[i], PyStr("unknown"), now)]

\* next((d for d in norm if d.get("name") == r), None): where the match is, 0 for None
NextNamed_Last(norm, r) ==
    LET hits == {i \in 1..Len(norm) : Get(norm[i], "name") = PyStr(r)}
    IN  IF hits = {} THEN 0 ELSE CHOOSE i \in hits : \A j \in hits : j <= i

NextNamed(norm, r) ==
    LET hits == {i \in 1..Len(norm) : Get(norm[i], "name") = PyStr(r)}
    IN  IF hits = {} THEN 0 ELSE CHOOSE i \in hits : \A j \in hits : i <= j

\* operational_fraction counting every required record that is listed
operational_fraction_AnyStatus(svcs, now) ==
    LET required == REQUIRED_SERVICES_ORDER
        norm     == NormAll(svcs, now)
        counted  == {k \in 1..Len(required) : NextNamed(norm, required[k]) # 0}
    IN  IF Len(required) = 0 THEN [x |-> 0, y |-> 0]
        ELSE [x |-> Cardinality(counted), y |-> Len(required)]

\* operational_fraction(services)
operational_fraction(svcs, now) ==
    LET required == REQUIRED_SERVICES_ORDER
        norm     == NormAll(svcs, now)
        counted  == {k \in 1..Len(required) :
                        LET i == NextNamed(norm, required[k])
                        IN  /\ i # 0
                            /\ Truthy(norm[i])
                            /\ Get(norm[i], "status") = PyStr("OPERATIONAL")}
    IN  IF Len(required) = 0 THEN [x |-> 0, y |-> 0]
        ELSE [x |-> Cardinality(counted), y |-> Len(required)]

\* critical = {"kubernetes", "postgres", "ingress_tls"}
critical_NoIngress == {"kubernetes", "postgres"}

critical == {"kubernetes", "postgres", "ingress_tls"}

\* compute_platform_status(services)
compute_platform_status(svcs, now) ==
    LET norm == NormAll(svcs, now)
    IN  IF \E i \in 1..Len(norm) :
               /\ Get(norm[i], "name") \in {PyStr(c) : c \in critical}
               /\ Get(norm[i], "status") = PyStr("DOWN")
        THEN "DOWN"
        ELSE IF \E i \in 1..Len(norm) :
                    Get(norm[i], "status") \in {PyStr("DOWN"), PyStr("DEGRADED")}
        THEN "DEGRADED"
        ELSE "OPERATIONAL"

----------------------------------------------------------------------------
(* Python helpers used by the probes and the handlers *)

\* d.get(k, default)
GetD(d, k, default) == IF k \in DOMAIN d.f THEN d.f[k] ELSE default

Max(a, b) == IF a >= b THEN a ELSE b

Min(a, b) == IF a <= b THEN a ELSE b

Digit == <<"0", "1", "2", "3", "4", "5", "6", "7", "8", "9">>

\* str(n) of an int
RECURSIVE IntStr(_)
IntStr(n) ==
    IF n < 0 THEN "-" \o IntStr(-n)
    ELSE IF n < 10 THEN Digit[n + 1]
    ELSE IntStr(n \div 10) \o Digit[(n % 10) + 1]

PyNum(n) == PyInt(IntStr(n))

\* the ints the model reads back from their decimal form
IntLiterals == {-5, 0, 1, 2, 3, 50, 200, 500}

IsIntLiteral(x) == \E n \in IntLiterals : IntStr(n) = x

\* int(v or 0) of a payload number
IntOr0(v) ==
    IF ~Truthy(v) THEN 0 ELSE CHOOSE n \in IntLiterals : IntStr(n) = v.s

\* a service_obj call with evidence_type / evidence_details
SoKw(name, status, reason, links, evidence_type, evidence_details) ==
    [name |-> PyStr(name), status |-> PyStr(status), reason |-> PyStr(reason),
     last_checked |-> PyStr(""), links |-> links, evidence |-> PyNone,
     evidence_type |-> PyStr(evidence_type), evidence_details |-> evidence_details]

Links(ui, api) == PyDict([ui |-> PyStr(ui), api |-> PyStr(api)])

----------------------------------------------------------------------------
(* config.py: Config as the process environment sets it.  e describes the    *)
(* deployment: which settings are given and how the backing systems answer.  *)

Config(e) ==
    [URL_SCHEME          |-> "http",
     PORTAL_HOST         |-> IF e.hosts = "set" THEN "portal.example" ELSE "",
     AIRBYTE_HOST        |-> IF e.hosts = "set" THEN "airbyte.example" ELSE "",
     MINIO_HOST          |-> IF e.hosts = "set" THEN "minio.example" ELSE "",
     METABASE_HOST       |-> IF e.hosts = "set" THEN "metabase.example" ELSE "",
     N8N_HOST            |-> IF e.hosts = "set" THEN "n8n.example" ELSE "",
     ZAMMAD_HOST         |-> IF e.hosts = "set" THEN "zammad.example" ELSE "",
     DBT_HOST            |-> IF e.hosts = "set" THEN "dbt.example" ELSE "",
     POSTGRES_SERVICE    |-> "openkpi-postgres.open-kpi.svc.cluster.local",
     POSTGRES_DB         |-> IF e.pg = "unconfigured" THEN "" ELSE "openkpi",
     POSTGRES_USER       |-> IF e.pg = "unconfigured" THEN "" ELSE "openkpi",
     POSTGRES_PASSWORD   |-> IF e.pg = "unconfigured" THEN "" ELSE "secret",
     MINIO_SERVICE       |-> "openkpi-minio.open-kpi.svc.cluster.local",
     MINIO_ROOT_USER     |-> IF e.minio = "unconfigured" THEN "" ELSE "minio",
     MINIO_ROOT_PASSWORD |-> IF e.minio = "unconfigured" THEN "" ELSE "secret",
     AIRBYTE_NS          |-> "airbyte",
     N8N_API_KEY         |-> IF e.n8n = "no_auth" THEN "" ELSE "key",
     N8N_BASIC_USER      |-> "",
     N8N_BASIC_PASS      |-> "",
     ZAMMAD_API_TOKEN    |-> IF e.zammad = "no_auth" THEN "" ELSE "token",
     METABASE_API_KEY    |-> ""]

\* f"{Cfg.URL_SCHEME}://{host}" if host else ""
HostUrl(cfg, host) == IF host # "" THEN cfg.URL_SCHEME \o "://" \o host ELSE ""

\* Config.pg_dsn(): raises RuntimeError when a setting is empty
pg_dsn(cfg) ==
    IF cfg.POSTGRES_SERVICE = "" THEN Raised("POSTGRES_SERVICE is empty")
    ELSE IF cfg.POSTGRES_USER = "" THEN Raised("POSTGRES_USER is empty")
    ELSE IF cfg.POSTGRES_PASSWORD = "" THEN Raised("POSTGRES_PASSWORD is empty")
    ELSE PyStr("postgresql://" \o cfg.POSTGRES_USER \o ":" \o cfg.POSTGRES_PASSWORD
               \o "@" \o cfg.POSTGRES_SERVICE \o ":5432/"
               \o (IF cfg.POSTGRES_DB = "" THEN "postgres" ELSE cfg.POSTGRES_DB))

----------------------------------------------------------------------------
(* The backing systems *)

\* the Kubernetes core and apps API answers list calls
CoreApiOk(e) == e.k8s \notin {"core_denied", "unreachable"}

\* the Kubernetes networking API answers list_ingress_for_all_namespaces;
\* by = "k8s" during k8s_summary, "ingress" during the ingress probe
NetApiOk(e, by) ==
    IF by = "k8s" THEN e.k8s # "unreachable"
    ELSE e.k8s \notin {"unreachable", "lost_later"}

Pods(e) == IF e.k8s = "low_ready" THEN [ready |-> 1, total |-> 3]
           ELSE [ready |-> 3, total |-> 3]

\* number of ingresses in the cluster, each with one route
IngressCount(e) == IF e.k8s = "no_ingress" THEN 0 ELSE 1

IngressRows(e) ==
    IF IngressCount(e) = 0 THEN PyList("[]")
    ELSE PyList("[{'namespace': 'platform', 'name': 'portal', 'host': 'portal.example'}]")

\* what requests.get / requests.post get from the monitored applications:
\* status_code 0 stands for a connection error or timeout
WorldHttp(e, url) ==
    LET airbyteIn  == "http://airbyte-server.airbyte.svc.cluster.local:8001"
        airbyteOut == "http://airbyte.example"
    IN  CASE url = airbyteIn \o "/api/v1/health" ->
                 IF e.airbyte \in {"up", "jobs_fail"}
                 THEN [status_code |-> 200, json |-> PyDict([available |-> PyStr("true")])]
                 ELSE [status_code |-> 0, json |-> PyNone]
          [] url = airbyteOut \o "/api/v1/health" ->
                 IF e.airbyte \in {"up", "jobs_fail", "external_only"}
                 THEN [status_code |-> 200, json |-> PyDict([available |-> PyStr("true")])]
                 ELSE [status_code |-> 0, json |-> PyNone]
          [] url \in {airbyteIn \o "/api/v1/jobs/list", airbyteOut \o "/api/v1/jobs/list"} ->
                 IF e.airbyte \in {"up", "external_only"}
                 THEN [status_code |-> 200, json |-> PyDict([jobs |-> PyList("[{'id': 1}]")])]
                 ELSE IF e.airbyte = "jobs_fail"
                 THEN [status_code |-> 500, json |-> PyNone]
                 ELSE [status_code |-> 0, json |-> PyNone]
          [] url = "http://n8n.example" ->
                 IF e.n8n # "ui_down" THEN [status_code |-> 200, json |-> PyNone]
                 ELSE [status_code |-> 0, json |-> PyNone]
          [] url = "http://n8n.example/rest/workflows" ->
                 IF e.n8n = "up"
                 THEN [status_code |-> 200, json |-> PyDict([data |-> PyList("[{'active': True}]")])]
                 ELSE IF e.n8n = "ui_down" THEN [status_code |-> 0, json |-> PyNone]
                 ELSE [status_code |-> 401, json |-> PyNone]
          [] url = "http://zammad.example" ->
                 IF e.zammad # "ui_down" THEN [status_code |-> 200, json |-> PyNone]
                 ELSE [status_code |-> 0, json |-> PyNone]
          [] url = "http://zammad.example/api/v1/tickets/search?query=state.name:open" ->
                 IF e.zammad = "up" THEN [status_code |-> 200, json |-> PyList("[{'id': 1}]")]
                 ELSE IF e.zammad = "ui_down" THEN [status_code |-> 0, json |-> PyNone]
                 ELSE [status_code |-> 401, json |-> PyNone]
          [] url = "http://metabase.example" ->
                 IF e.metabase = "up" THEN [status_code |-> 200, json |-> PyNone]
                 ELSE [status_code |-> 0, json |-> PyNone]
          [] OTHER -> [status_code |-> 0, json |-> PyNone]

\* util/http.py http_get_text(url, timeout)
http_get_text(e, url) ==
    IF url = "" THEN [ok |-> FALSE, status_code |-> PyNone, error |-> PyStr("empty url"), json |-> PyNone]
    ELSE LET r == WorldHttp(e, url)
         IN  IF r.status_code = 0
             THEN [ok |-> FALSE, status_code |-> PyNone, error |-> PyStr("connection failed"), json |-> PyNone]
             ELSE [ok |-> r.status_code < 400, status_code |-> PyNum(r.status_code),
                   error |-> PyNone, json |-> PyNone]

\* util/http.py http_get_json(url, timeout, headers, auth, method, json_body)
http_get_json(e, url) ==
    IF url = "" THEN [ok |-> FALSE, status_code |-> PyNone, error |-> PyStr("empty url"), json |-> PyNone]
    ELSE LET r == WorldHttp(e, url)
         IN  IF r.status_code = 0
             THEN [ok |-> FALSE, status_code |-> PyNone, error |-> PyStr("connection failed"), json |-> PyNone]
             ELSE IF r.status_code >= 400
             THEN [ok |-> FALSE, status_code |-> PyNum(r.status_code),
                   error |-> PyStr("error body"), json |-> PyNone]
             ELSE IF r.json = PyNone
             THEN [ok |-> FALSE, status_code |-> PyNum(r.status_code),
                   error |-> PyStr("invalid json"), json |-> PyNone]
             ELSE [ok |-> TRUE, status_code |-> PyNum(r.status_code),
                   error |-> PyNone, json |-> r.json]

\* the tables of the database outside pg_catalog and information_schema,
\* ordered by (schema, table)
DbTables ==
    <<[schema |-> "analytics", table |-> "orders"],
      [schema |-> "analytics", table |-> "users"],
      [schema |-> "staging", table |-> "events"]>>

DbSchemasCount == Cardinality({DbTables[i].schema : i \in 1..Len(DbTables)})

----------------------------------------------------------------------------
(* probes/k8s_probe.py *)

\* _collect_ingresses(mode): lists the ingresses again; raises when the
\* networking API does not answer
_collect_ingresses(e) ==
    IF NetApiOk(e, "k8s") THEN IngressRows(e) ELSE Raised("ApiException")

Workload(ready, total) == PyDict([ready |-> PyNum(ready), total |-> PyNum(total)])

\* the except branch of k8s_summary: the DOWN record, built around a call of
\* _collect_ingresses that is not guarded
K8sDownBlob(e, now) ==
    LET ing == _collect_ingresses(e)
    IN  IF ing.t = "raise" THEN ing
        ELSE PyDict([service |-> service_obj(
                        SoKw("kubernetes", "DOWN", "Kubernetes API unreachable", Links("", ""), "k8s",
                             PyDict([error |-> PyStr("ApiException"), config_mode |-> PyStr("incluster")])),
                        now),
                     k8s |-> PyDict([namespaces |-> PyList("[]"), workloads |-> EmptyDict,
                                     restarts_total |-> PyNum(0), ingresses |-> ing]),
                     raw |-> EmptyDict])

\* k8s_summary(Cfg)
k8s_summary(e, now) ==
    IF ~CoreApiOk(e) \/ ~NetApiOk(e, "k8s")
    THEN K8sDownBlob(e, now)
    ELSE LET pods   == Pods(e)
             low    == pods.total > 0 /\ pods.ready < Max(1, (pods.total * 70) \div 100)
             status == IF low THEN "DEGRADED" ELSE "OPERATIONAL"
             reason == IF low THEN "Low ready pod ratio" ELSE ""
             evidence ==
                 PyDict([config_mode |-> PyStr("incluster"), namespaces_count |-> PyNum(3),
                         pods |-> Workload(pods.ready, pods.total),
                         deployments |-> Workload(2, 2), statefulsets |-> Workload(1, 1),
                         restarts_total |-> PyNum(0), ingresses_count |-> PyNum(IngressCount(e))])
         IN  PyDict([service |-> service_obj(
                         SoKw("kubernetes", status, reason, Links("", ""), "k8s", evidence), now),
                     k8s |-> PyDict([namespaces |-> PyList("['platform', 'airbyte', 'open-kpi']"),
                                     workloads |-> PyDict([pods |-> Workload(pods.ready, pods.total),
                                                           deployments |-> Workload(2, 2),
                                                           statefulsets |-> Workload(1, 1)]),
                                     restarts_total |-> PyNum(0),
                                     ingresses |-> _collect_ingresses(e)]),
                     raw |-> PyDict([ingresses_count |-> PyNum(IngressCount(e))])])

----------------------------------------------------------------------------
(* probes/ingress_probe.py *)

\* ingress_links_and_inventory(Cfg, k8s_blob): what it returns (ret) and the
\* k8s_blob argument as it leaves it (k8s_blob["k8s"]["ingresses"] = rows)
ingress_links_and_inventory(e, k8s_blob, now) ==
    LET cfg == Config(e)
    IN  IF ~NetApiOk(e, "ingress") \/ "k8s" \notin DOMAIN k8s_blob.f
        THEN [ret |-> PyDict([service |-> service_obj(
                                  SoKw("ingress_tls", "DOWN", "Ingress discovery failed",
                                       Links("", ""), "k8s",
                                       PyDict([error |-> PyStr("ApiException")])), now),
                              ingresses |-> PyList("[]"),
                              links_contract |->
                                  PyDict([portal |-> PyStr(""), airbyte |-> PyStr(""),
                                          minio |-> PyStr(""), metabase |-> PyStr(""),
                                          dbt_docs |-> PyStr(""), dbt_lineage |-> PyStr(""),
                                          n8n |-> PyStr(""), zammad |-> PyStr("")])]),
              k8s_blob |-> k8s_blob]
        ELSE LET rows == IngressRows(e)
                 portal == HostUrl(cfg, cfg.PORTAL_HOST)
                 links_contract ==
                     PyDict([portal      |-> PyStr(portal),
                             airbyte     |-> PyStr(HostUrl(cfg, cfg.AIRBYTE_HOST)),
                             minio       |-> PyStr(HostUrl(cfg, cfg.MINIO_HOST)),
                             metabase    |-> PyStr(HostUrl(cfg, cfg.METABASE_HOST)),
                             dbt_docs    |-> PyStr(IF cfg.DBT_HOST # ""
                                                   THEN HostUrl(cfg, cfg.DBT_HOST) \o "/docs" ELSE ""),
                             dbt_lineage |-> PyStr(IF cfg.DBT_HOST # ""
                                                   THEN HostUrl(cfg, cfg.DBT_HOST) \o "/#!/overview" ELSE ""),
                             n8n         |-> PyStr(HostUrl(cfg, cfg.N8N_HOST)),
                             zammad      |-> PyStr(HostUrl(cfg, cfg.ZAMMAD_HOST))])
                 none   == IngressCount(e) = 0
                 evidence ==
                     PyDict([scheme |-> PyStr(cfg.URL_SCHEME),
                             ingresses_found |-> PyNum(IngressCount(e)),
                             routes_found |-> PyNum(IngressCount(e)),
                             sample_routes |-> rows])
             IN  [ret |-> PyDict([service |-> service_obj(
                                      SoKw("ingress_tls",
                                           IF none THEN "DEGRADED" ELSE "OPERATIONAL",
                                           IF none THEN "No ingresses discovered" ELSE "",
                                           Links(portal, IF portal # "" THEN portal \o "/api" ELSE ""),
                                           "k8s", evidence), now),
                                  ingresses |-> rows,
                                  links_contract |-> links_contract]),
                  k8s_blob |-> PyDict([k8s_blob.f EXCEPT !["k8s"] =
                                           PyDict([@.f EXCEPT !["ingresses"] = rows])])]

----------------------------------------------------------------------------
(* probes/minio_probe.py and util/s3.py *)

MinioConfigured(cfg) ==
    cfg.MINIO_SERVICE # "" /\ cfg.MINIO_ROOT_USER # "" /\ cfg.MINIO_ROOT_PASSWORD # ""

\* minio_summary(Cfg)
minio_summary(e, now) ==
    LET cfg      == Config(e)
        ui       == HostUrl(cfg, cfg.MINIO_HOST)
        endpoint == "http://" \o cfg.MINIO_SERVICE \o ":9000"
    IN  IF ~MinioConfigured(cfg)
        THEN PyDict([service |-> service_obj(
                         SoKw("minio", "DEGRADED", "MinIO credentials not configured",
                              Links(ui, ""), "api", PyDict([configured |-> PyBool(FALSE)])), now),
                     minio |-> PyDict([buckets |-> PyList("[]"), bucket_count |-> PyNum(0)])])
        ELSE IF e.minio \in {"up", "up_artifacts"}
        THEN PyDict([service |-> service_obj(
                         SoKw("minio", "OPERATIONAL", "", Links(ui, endpoint), "api",
                              PyDict([endpoint |-> PyStr(endpoint), bucket_count |-> PyNum(2),
                                      sample |-> PyList("[{'name': 'dbt'}, {'name': 'raw'}]")])), now),
                     minio |-> PyDict([buckets |-> PyList("[{'name': 'dbt'}, {'name': 'raw'}]"),
                                       bucket_count |-> PyNum(2), endpoint |-> PyStr(endpoint)])])
        ELSE PyDict([service |-> service_obj(
                         SoKw("minio", "DOWN", "MinIO unreachable", Links(ui, endpoint), "api",
                              PyDict([endpoint |-> PyStr(endpoint), error |-> PyStr("EndpointConnectionError")])), now),
                     minio |-> PyDict([buckets |-> PyList("[]"), bucket_count |-> PyNum(0),
                                       endpoint |-> PyStr(endpoint)])])

\* the dbt artifacts in the object store
DbtManifest ==
    PyDict([nodes |-> PyDict([model_orders |-> PyDict([resource_type |-> PyStr("model")]),
                              model_users  |-> PyDict([resource_type |-> PyStr("model")]),
                              test_orders  |-> PyDict([resource_type |-> PyStr("test")])])])

DbtRunResults ==
    PyDict([metadata |-> PyDict([generated_at |-> PyStr("2026-01-05T10:00:00Z")]), elapsed_time |-> PyNum(3),
            results |-> PyList("[{'status': 'success'}]")])

\* s3_get_json_if_exists(Cfg, bucket, key)
s3_get_json_if_exists(e, bucket, key) ==
    IF ~MinioConfigured(Config(e)) \/ e.minio # "up_artifacts" \/ bucket # "dbt"
    THEN [ok |-> FALSE, json |-> PyNone, bucket |-> bucket, key |-> key]
    ELSE [ok |-> TRUE,
          json |-> IF key = "artifacts/manifest.json" THEN DbtManifest ELSE DbtRunResults,
          bucket |-> bucket, key |-> key]

----------------------------------------------------------------------------
(* probes/postgres_probe.py *)

\* psycopg2.connect succeeds
PgConnects(e) == e.pg = "up"

\* postgres_summary(Config)
postgres_summary(e, now) ==
    LET cfg  == Config(e)
        host == cfg.POSTGRES_SERVICE
    IN  IF host = "" \/ cfg.POSTGRES_DB = "" \/ cfg.POSTGRES_USER = "" \/ cfg.POSTGRES_PASSWORD = ""
        THEN PyDict([service |-> service_obj(
                         [name |-> PyStr("postgres"), status |-> PyStr("INFO"),
                          reason |-> PyStr("postgres not configured"),
                          last_checked |-> utc_now_iso(now), links |-> Links("", ""),
                          evidence |-> PyDict([type |-> PyStr("db"),
                                               details |-> PyDict([configured |-> PyBool(FALSE)])]),
                          evidence_type |-> PyNone, evidence_details |-> PyNone], now),
                     postgres |-> PyDict([configured |-> PyBool(FALSE)])])
        ELSE IF PgConnects(e)
        THEN LET details == PyDict([host |-> PyStr(host), port |-> PyInt("5432"),
                                    db |-> PyStr(cfg.POSTGRES_DB),
                                    schemas_count |-> PyNum(DbSchemasCount),
                                    tables_count |-> PyNum(Len(DbTables))])
             IN  PyDict([service |-> service_obj(
                             [name |-> PyStr("postgres"), status |-> PyStr("OPERATIONAL"),
                              reason |-> PyStr(""), last_checked |-> utc_now_iso(now),
                              links |-> Links("", ""),
                              evidence |-> PyDict([type |-> PyStr("db"), details |-> details]),
                              evidence_type |-> PyNone, evidence_details |-> PyNone], now),
                         postgres |-> details])
        ELSE LET details == PyDict([error |-> PyStr("OperationalError"), host |-> PyStr(host),
                                    port |-> PyInt("5432"), db |-> PyStr(cfg.POSTGRES_DB)])
             IN  PyDict([service |-> service_obj(
                             [name |-> PyStr("postgres"), status |-> PyStr("DOWN"),
                              reason |-> PyStr("postgres connection/query failed"),
                              last_checked |-> utc_now_iso(now), links |-> Links("", ""),
                              evidence |-> PyDict([type |-> PyStr("db"), details |-> details]),
                              evidence_type |-> PyNone, evidence_details |-> PyNone], now),
                         postgres |-> details])

\* rows offset+1 .. offset+limit of a listing (limit %s offset %s)
Page(rows, limit, offset) ==
    SubSeq(rows, Min(offset + 1, Len(rows) + 1), Min(offset + limit, Len(rows)))

\* the body of postgres_catalog_tables: its count query reads the tables
\* `counted`, its listing query, on another connection, the tables `listed`
CatalogQueries(e, page, page_size, counted, listed) ==
    LET dsn    == pg_dsn(Config(e))
        p      == Max(IF page = 0 THEN 1 ELSE page, 1)
        ps     == Max(Min(IF page_size = 0 THEN 50 ELSE page_size, 200), 1)
        offset == (p - 1) * ps
    IN  IF dsn.t = "raise" THEN [raised |-> TRUE, error |-> dsn.s]
        ELSE IF ~PgConnects(e) THEN [raised |-> TRUE, error |-> "OperationalError"]
        ELSE [raised |-> FALSE,
              tables |-> Page(listed, ps, offset),
              pagination |-> [page |-> p, page_size |-> ps, total |-> Len(counted)]]

\* postgres_catalog_tables(Cfg, page, page_size) on a database that does not
\* change during the call: the result, or the exception of pg_dsn or of the
\* connection
postgres_catalog_tables(e, page, page_size) ==
    CatalogQueries(e, page, page_size, DbTables, DbTables)

----------------------------------------------------------------------------
(* Strings as Python sees them: sequences of characters *)

\* s.strip()
RECURSIVE Strip(_)
Strip(cs) ==
    LET Whitespace == {" ", "\t", "\n"}
    IN  IF cs # <<>> /\ Head(cs) \in Whitespace THEN Strip(Tail(cs))
        ELSE IF cs # <<>> /\ cs[Len(cs)] \in Whitespace
        THEN Strip(SubSeq(cs, 1, Len(cs) - 1))
        ELSE cs

\* s.lower(), and the case folding of ilike
Lower(cs) ==
    LET LowerCase ==
            [A |-> "a", B |-> "b", C |-> "c", D |-> "d", E |-> "e", F |-> "f", G |-> "g",
             H |-> "h", I |-> "i", J |-> "j", K |-> "k", L |-> "l", M |-> "m", N |-> "n",
             O |-> "o", P |-> "p", Q |-> "q", R |-> "r", S |-> "s", T |-> "t", U |-> "u",
             V |-> "v", W |-> "w", X |-> "x", Y |-> "y", Z |-> "z"]
    IN  [i \in 1..Len(cs) |->
             IF cs[i] \in DOMAIN LowerCase THEN LowerCase[cs[i]] ELSE cs[i]]

\* needle in hay
Contains(hay, needle) ==
    \E i \in 0..(Len(hay) - Len(needle)) : SubSeq(hay, i + 1, i + Len(needle)) = needle

\* the characters of the schema and table names of the database
Spelling ==
    [analytics |-> <<"a", "n", "a", "l", "y", "t", "i", "c", "s">>,
     staging   |-> <<"s", "t", "a", "g", "i", "n", "g">>,
     orders    |-> <<"o", "r", "d", "e", "r", "s">>,
     users     |-> <<"u", "s", "e", "r", "s">>,
     events    |-> <<"e", "v", "e", "n", "t", "s">>]

\* table_schema ilike %q% or table_name ilike %q%
Matches(t, q) ==
    \/ Contains(Lower(Spelling[t.schema]), Lower(q))
    \/ Contains(Lower(Spelling[t.table]), Lower(q))

\* whether postgres_search(Cfg, q) gets to connect to the database
postgres_search_connects(e, q) ==
    pg_dsn(Config(e)).t # "raise" /\ Strip(q) # <<>>

\* postgres_search(Cfg, q): the result, or the exception of pg_dsn or of the
\* connection
postgres_search(e, q) ==
    LET dsn  == pg_dsn(Config(e))
        term == Strip(q)
        hits == SelectSeq(DbTables, LAMBDA t : Matches(t, term))
    IN  IF dsn.t = "raise" THEN [raised |-> TRUE, error |-> dsn.s]
        ELSE IF term = <<>> THEN [raised |-> FALSE, q |-> term, matches |-> <<>>]
        ELSE IF ~PgConnects(e) THEN [raised |-> TRUE, error |-> "OperationalError"]
        ELSE [raised |-> FALSE, q |-> term,
              matches |-> SubSeq(hits, 1, Min(50, Len(hits)))]

----------------------------------------------------------------------------
(* probes/airbyte_probe.py *)

\* airbyte_summary(Cfg, ingress_blob)
airbyte_summary(e, ingress_blob, now) ==
    LET cfg      == Config(e)
        internal == "http://airbyte-server." \o cfg.AIRBYTE_NS \o ".svc.cluster.local:8001"
        external == HostUrl(cfg, cfg.AIRBYTE_HOST)
        health0  == http_get_json(e, internal \o "/api/v1/health")
        retry    == ~health0.ok /\ external # ""
        api_base == IF retry THEN external ELSE internal
        health   == IF retry THEN http_get_json(e, api_base \o "/api/v1/health") ELSE health0
    IN  IF ~health.ok
        THEN PyDict([service |-> service_obj(
                         SoKw("airbyte", "DOWN", "Airbyte API unreachable",
                              Links(external, api_base), "http",
                              PyDict([health_url |-> PyStr(api_base \o "/api/v1/health"),
                                      error |-> health.error, status_code |-> health.status_code])), now),
                     last_sync |-> PyNone,
                     airbyte |-> PyDict([api_base |-> PyStr(api_base)])])
        ELSE LET jobs  == http_get_json(e, api_base \o "/api/v1/jobs/list")
                 items == IF jobs.ok THEN Or(Get(Or(jobs.json, EmptyDict), "jobs"), PyList("[]"))
                          ELSE PyList("[]")
                 last  == IF jobs.ok /\ Truthy(items)
                          THEN PyDict([id |-> PyNum(1), status |-> PyStr("succeeded")])
                          ELSE PyNone
                 evidence ==
                     PyDict([health |-> health.json, api_base |-> PyStr(api_base),
                             jobs_list |->
                                 IF jobs.ok THEN PyDict([ok |-> PyBool(TRUE), sample |-> items])
                                 ELSE PyDict([ok |-> PyBool(FALSE), error |-> jobs.error,
                                              status_code |-> jobs.status_code])])
             IN  PyDict([service |-> service_obj(
                             SoKw("airbyte",
                                  IF jobs.ok THEN "OPERATIONAL" ELSE "DEGRADED",
                                  IF jobs.ok THEN "" ELSE "Airbyte jobs API not accessible",
                                  Links(external, api_base), "http", evidence), now),
                         last_sync |-> last,
                         airbyte |-> PyDict([api_base |-> PyStr(api_base), last |-> last])])

----------------------------------------------------------------------------
(* probes/dbt_probe.py *)

CountNodes(nodes, kind) ==
    Cardinality({k \in DOMAIN nodes.f : Get(nodes.f[k], "resource_type") = PyStr(kind)})

\* dbt_summary(Cfg, ingress_blob, minio_blob)
dbt_summary(e, ingress_blob, minio_blob, now) ==
    LET docs_url    == GetD(GetD(ingress_blob, "links_contract", EmptyDict), "dbt_docs", PyStr(""))
        lineage_url == GetD(GetD(ingress_blob, "links_contract", EmptyDict), "dbt_lineage", PyStr(""))
        minio_ok    == Get(Or(GetD(minio_blob, "service", EmptyDict), EmptyDict), "status")
                           = PyStr("OPERATIONAL")
        manifest0   == s3_get_json_if_exists(e, "dbt", "artifacts/manifest.json")
        manifest    == IF manifest0.ok THEN manifest0
                       ELSE s3_get_json_if_exists(e, "dbt-docs", "artifacts/manifest.json")
        runres0     == s3_get_json_if_exists(e, "dbt", "artifacts/run_results.json")
        runres      == IF runres0.ok THEN runres0
                       ELSE s3_get_json_if_exists(e, "dbt-docs", "artifacts/run_results.json")
        status      == IF ~minio_ok THEN "DEGRADED"
                       ELSE IF manifest.ok \/ runres.ok THEN "OPERATIONAL" ELSE "INFO"
        reason      == IF ~minio_ok THEN "MinIO not configured; cannot verify dbt artifacts"
                       ELSE IF manifest.ok \/ runres.ok THEN "" ELSE "dbt artifacts not available"
        nodes       == Or(Get(Or(manifest.json, EmptyDict), "nodes"), EmptyDict)
        counts      == IF minio_ok /\ manifest.ok
                       THEN PyDict([models |-> PyNum(CountNodes(nodes, "model")),
                                    tests  |-> PyNum(CountNodes(nodes, "test"))])
                       ELSE PyDict([models |-> PyNone, tests |-> PyNone])
        artifacts   == PyDict([manifest |->
                                   IF minio_ok /\ manifest.ok
                                   THEN PyDict([bucket |-> PyStr(manifest.bucket), key |-> PyStr(manifest.key)])
                                   ELSE PyNone,
                               run_results |->
                                   IF minio_ok /\ runres.ok
                                   THEN PyDict([bucket |-> PyStr(runres.bucket), key |-> PyStr(runres.key)])
                                   ELSE PyNone])
        last_run    == IF minio_ok /\ runres.ok
                       THEN PyDict([generated_at |-> Get(Or(Get(runres.json, "metadata"), EmptyDict), "generated_at"),
                                    elapsed_time |-> Get(runres.json, "elapsed_time")])
                       ELSE PyNone
        evidence    == IF minio_ok
                       THEN PyDict([docs_url |-> docs_url, lineage_url |-> lineage_url,
                                    minio_operational |-> PyBool(TRUE),
                                    manifest_found |-> PyBool(manifest.ok),
                                    run_results_found |-> PyBool(runres.ok)])
                       ELSE PyDict([docs_url |-> docs_url, lineage_url |-> lineage_url,
                                    minio_operational |-> PyBool(FALSE),
                                    artifacts_try |-> PyList("[]")])
    IN  PyDict([service |-> service_obj(
                    [name |-> PyStr("dbt"), status |-> PyStr(status), reason |-> PyStr(reason),
                     last_checked |-> PyStr(""),
                     links |-> PyDict([ui |-> Or(docs_url, lineage_url), api |-> PyStr("")]),
                     evidence |-> PyNone,
                     evidence_type |-> PyStr(IF minio_ok THEN "api" ELSE "http"),
                     evidence_details |-> evidence], now),
                dbt |-> PyDict([docs_url |-> docs_url, lineage_url |-> lineage_url,
                                artifacts |-> artifacts, counts |-> counts]),
                last_run |-> last_run])

----------------------------------------------------------------------------
(* probes/n8n_probe.py, probes/zammad_probe.py, probes/metabase_probe.py *)

\* ui = ingress_blob.get("links_contract", {}).get(app, ""), else the configured host
AppUi(cfg, ingress_blob, app, host) ==
    LET ui == GetD(GetD(ingress_blob, "links_contract", EmptyDict), app, PyStr(""))
    IN  IF ~Truthy(ui) /\ host # "" THEN HostUrl(cfg, host) ELSE ui.s

\* the status rule with a reachable UI counted as down when the API is not
UiApiStatus_DownWithoutApi(ui_ok, api_ok) ==
    IF ~api_ok THEN "DOWN" ELSE "OPERATIONAL"

\* the status rule shared by n8n_summary and zammad_summary
UiApiStatus(ui_ok, api_ok) ==
    IF ~ui_ok /\ ~api_ok THEN "DOWN"
    ELSE IF ui_ok /\ ~api_ok THEN "DEGRADED"
    ELSE "OPERATIONAL"

\* n8n_summary(Cfg, ingress_blob)
n8n_summary(e, ingress_blob, now) ==
    LET cfg      == Config(e)
        ui       == AppUi(cfg, ingress_blob, "n8n", cfg.N8N_HOST)
        ui_probe == http_get_text(e, ui)
        auth     == cfg.N8N_BASIC_USER # "" /\ cfg.N8N_BASIC_PASS # ""
        tried    == ui # "" /\ (cfg.N8N_API_KEY # "" \/ auth)
        wf       == http_get_json(e, ui \o "/rest/workflows")
        api_ok   == tried /\ wf.ok
        api_reason == IF ~tried THEN "API auth not configured"
                      ELSE IF ~wf.ok THEN "API auth not configured or API not accessible"
                      ELSE ""
        status   == UiApiStatus(ui_probe.ok, api_ok)
        reason   == IF status = "DOWN" THEN "n8n unreachable"
                    ELSE IF status = "DEGRADED"
                    THEN (IF api_reason # "" THEN api_reason ELSE "API not accessible")
                    ELSE ""
        details  == PyDict([ui_url |-> PyStr(ui),
                            ui_http_ok |-> PyBool(ui_probe.ok),
                            ui_status_code |-> ui_probe.status_code,
                            api_status_code |-> IF tried THEN wf.status_code ELSE PyNone])
    IN  PyDict([service |-> service_obj(
                    SoKw("n8n", status, reason,
                         Links(ui, IF ui # "" THEN ui \o "/rest" ELSE ""), "http", details), now),
                n8n |-> PyDict([workflows_total |-> IF api_ok THEN PyNum(1) ELSE PyNone,
                                workflows_active |-> IF api_ok THEN PyNum(1) ELSE PyNone,
                                last_execution_time |-> PyNone])])

\* zammad_summary(Cfg, ingress_blob)
zammad_summary(e, ingress_blob, now) ==
    LET cfg      == Config(e)
        ui       == AppUi(cfg, ingress_blob, "zammad", cfg.ZAMMAD_HOST)
        ui_probe == IF ui # "" THEN http_get_text(e, ui)
                    ELSE [ok |-> FALSE, status_code |-> PyNone,
                          error |-> PyStr("zammad host not configured"), json |-> PyNone]
        token    == cfg.ZAMMAD_API_TOKEN
        tried    == ui # "" /\ token # ""
        search   == http_get_json(e, ui \o "/api/v1/tickets/search?query=state.name:open")
        api_ok   == tried /\ search.ok /\ search.json.t = "list"
        status   == UiApiStatus(ui_probe.ok, api_ok)
        reason   == IF status = "DOWN" THEN "Zammad unreachable"
                    ELSE IF status = "DEGRADED"
                    THEN (IF token = "" THEN "API token not configured" ELSE "Zammad API not accessible")
                    ELSE ""
        details  == PyDict([ui_url |-> PyStr(ui),
                            ui_http_ok |-> PyBool(ui_probe.ok),
                            ui_status_code |-> ui_probe.status_code,
                            token_present |-> PyBool(token # "")])
    IN  PyDict([service |-> service_obj(
                    SoKw("zammad", status, reason,
                         Links(ui, IF ui # "" THEN ui \o "/api/v1" ELSE ""), "http", details), now),
                zammad |-> PyDict([open_tickets |-> IF api_ok THEN PyNum(1) ELSE PyNone,
                                   total_tickets |-> PyNone, last_updated |-> PyNone])])

\* metabase_summary(Cfg, ingress_blob)
metabase_summary(e, ingress_blob, now) ==
    LET cfg      == Config(e)
        ui       == AppUi(cfg, ingress_blob, "metabase", cfg.METABASE_HOST)
        ui_probe == IF ui # "" THEN http_get_text(e, ui)
                    ELSE [ok |-> FALSE, status_code |-> PyNone,
                          error |-> PyStr("metabase host not configured"), json |-> PyNone]
        details  == PyDict([ui_url |-> PyStr(ui),
                            ui_http_ok |-> PyBool(ui_probe.ok),
                            ui_status_code |-> ui_probe.status_code,
                            api_key_present |-> PyBool(cfg.METABASE_API_KEY # "")])
    IN  PyDict([service |-> service_obj(
                    SoKw("metabase",
                         IF ui_probe.ok THEN "OPERATIONAL" ELSE "DOWN",
                         IF ui_probe.ok THEN "" ELSE "Metabase unreachable",
                         Links(ui, IF ui # "" THEN ui \o "/api" ELSE ""), "http", details), now),
                metabase |-> PyDict([reachable |-> PyBool(ui_probe.ok)])])

----------------------------------------------------------------------------
(* server.py *)

\* _as_int(v, default): int(v), default when int() raises
_as_int(v, default) ==
    IF IsStr(v) /\ IsIntLiteral(v.s)
    THEN CHOOSE n \in IntLiterals : IntStr(n) = v.s
    ELSE default

\* _ingress_blob(ingress_result)
_ingress_blob(ingress_result) ==
    IF IsDict(ingress_result) /\ "ingresses" \in DOMAIN ingress_result.f
    THEN ingress_result.f["ingresses"]
    ELSE ingress_result

\* _links_contract(ingress_result)
_links_contract(ingress_result) ==
    IF IsDict(ingress_result) /\ IsDict(Get(ingress_result, "links_contract"))
    THEN ingress_result.f["links_contract"]
    ELSE EmptyDict

\* _minio_blob(minio_result)
_minio_blob(minio_result) ==
    IF IsDict(minio_result) /\ "minio" \in DOMAIN minio_result.f
    THEN minio_result.f["minio"]
    ELSE minio_result

\* the base probes and the dependent probes, in the order services() and
\* summary() run them; an exception of a probe leaves the sweep
RunProbes(e, now) ==
    LET k8s0 == k8s_summary(e, now)
    IN  IF k8s0.t = "raise" THEN [raised |-> TRUE, error |-> k8s0.s]
        ELSE LET ing            == ingress_links_and_inventory(e, k8s0, now)
                 s3             == minio_summary(e, now)
                 links_contract == _links_contract(ing.ret)
                 minio_blob     == _minio_blob(s3)
             IN  [raised         |-> FALSE,
                  k8s            |-> ing.k8s_blob,
                  ingress        |-> ing.ret,
                  s3             |-> s3,
                  links_contract |-> links_contract,
                  pg             |-> postgres_summary(e, now),
                  ab             |-> airbyte_summary(e, links_contract, now),
                  dbt            |-> dbt_summary(e, links_contract, minio_blob, now),
                  n8n            |-> n8n_summary(e, links_contract, now),
                  zammad         |-> zammad_summary(e, links_contract, now),
                  metabase       |-> metabase_summary(e, links_contract, now)]

\* the order in which services() and summary() list the nine records
SweepOrder ==
    <<"kubernetes", "ingress_tls", "postgres", "minio", "airbyte",
      "dbt", "n8n", "zammad", "metabase">>

\* the nine records, each through _unwrap_to_contract with its fallback name
ServicesList(p, now) ==
    <<_unwrap_to_contract(p.k8s, PyStr("kubernetes"), now),
      _unwrap_to_contract(p.ingress, PyStr("ingress_tls"), now),
      _unwrap_to_contract(p.pg, PyStr("postgres"), now),
      _unwrap_to_contract(p.s3, PyStr("minio"), now),
      _unwrap_to_contract(p.ab, PyStr("airbyte"), now),
      _unwrap_to_contract(p.dbt, PyStr("dbt"), now),
      _unwrap_to_contract(p.n8n, PyStr("n8n"), now),
      _unwrap_to_contract(p.zammad, PyStr("zammad"), now),
      _unwrap_to_contract(p.metabase, PyStr("metabase"), now)>>

\* what Flask answers when an exception leaves a view function
InternalServerError == [code |-> 500, body |-> [html |-> "Internal Server Error"]]

\* services() after its probes, p their results
ServicesOf(p, now) ==
    IF p.raised THEN InternalServerError
        ELSE LET services_list == ServicesList(p, now)
             IN  [code |-> 200,
                  body |-> [generated_at         |-> utc_now_iso(now),
                            status               |-> compute_platform_status(services_list, now),
                            operational_fraction |-> operational_fraction(services_list, now),
                            required_order       |-> REQUIRED_SERVICES_ORDER,
                            services             |->
                                PyDict([n \in {SweepOrder[k] : k \in 1..Len(SweepOrder)} |->
                                            services_list[CHOOSE k \in 1..Len(SweepOrder) :
                                                              SweepOrder[k] = n]]),
                            ingresses            |-> _ingress_blob(p.ingress)]]

\* GET /api/services
api_services(e, now) == ServicesOf(RunProbes(e, now), now)

\* {"ready": int(w.get("ready") or 0), "total": int(w.get("total") or 0)}
Counts(w) == [ready |-> IntOr0(Get(w, "ready")), total |-> IntOr0(Get(w, "total"))]

ZeroCounts == PyDict([ready |-> PyNum(0), total |-> PyNum(0)])

\* the body of the try block of summary() after its probes, p their results:
\* the response it returns, or the exception that leaves it
SummaryMain(e, req, now, p) ==
    IF p.raised THEN p
        ELSE LET services_list == ServicesList(p, now)
                 k8s_blob  == Or(Get(p.k8s, "k8s"), EmptyDict)
                 workloads == Or(Get(k8s_blob, "workloads"), EmptyDict)
                 pg_details == Or(Get(p.pg, "postgres"), EmptyDict)
                 lc        == p.links_contract
                 page      == _as_int(req.args.page, 1)
                 page_size == _as_int(req.args.page_size, 50)
                 cat       == postgres_catalog_tables(e, page, page_size)
                 cat_tables == IF cat.raised THEN <<>> ELSE cat.tables
                 cat_pagination ==
                     IF cat.raised
                     THEN [page |-> page, page_size |-> page_size, total |-> 0]
                     ELSE cat.pagination
             IN  [raised |-> FALSE,
                  code   |-> 200,
                  body   |->
                      [generated_at    |-> utc_now_iso(now),
                       platform_status |-> compute_platform_status(services_list, now),
                       operational     |-> operational_fraction(services_list, now),
                       k8s             |->
                           [workloads |->
                                [deployments  |-> Counts(Or(Get(workloads, "deployments"), ZeroCounts)),
                                 pods         |-> Counts(Or(Get(workloads, "pods"), ZeroCounts)),
                                 statefulsets |-> Counts(Or(Get(workloads, "statefulsets"), ZeroCounts))],
                            restarts_total |-> IntOr0(Get(k8s_blob, "restarts_total")),
                            ingresses |-> Or(Get(k8s_blob, "ingresses"), PyList("[]"))],
                       services        |-> services_list,
                       postgres        |->
                           [schemas_count |-> IntOr0(Get(pg_details, "schemas_count")),
                            tables_count  |-> IntOr0(Get(pg_details, "tables_count"))],
                       proof           |-> [airbyte_last_sync |-> "", dbt_last_run |-> "",
                                            data_availability |-> ""],
                       links           |->
                           PyDict([postgres    |-> PyStr(""),
                                   minio       |-> Or(GetD(lc, "minio", PyStr("")), PyStr("")),
                                   airbyte     |-> Or(GetD(lc, "airbyte", PyStr("")), PyStr("")),
                                   metabase    |-> Or(GetD(lc, "metabase", PyStr("")), PyStr("")),
                                   n8n         |-> Or(GetD(lc, "n8n", PyStr("")), PyStr("")),
                                   zammad      |-> Or(GetD(lc, "zammad", PyStr("")), PyStr("")),
                                   dbt_docs    |-> Or(GetD(lc, "dbt_docs", PyStr("")), PyStr("")),
                                   dbt_lineage |-> Or(GetD(lc, "dbt_lineage", PyStr("")), PyStr(""))]),
                       assets          |->
                           [tables |-> [i \in 1..Len(cat_tables) |->
                                            [schema |-> cat_tables[i].schema,
                                             table |-> cat_tables[i].table,
                                             rows |-> 0, last_update |-> "", owner |-> ""]],
                            pagination |-> cat_pagination]]]

\* the except branch of summary(): the fallback body, at HTTP 200
SummaryFallback(error, now) ==
    [code |-> 200,
     body |->
         [generated_at    |-> utc_now_iso(now),
          platform_status |-> "DOWN",
          operational     |-> [x |-> 0, y |-> Len(REQUIRED_SERVICES_ORDER)],
          k8s             |->
              [workloads |-> [deployments  |-> [ready |-> 0, total |-> 0],
                              pods         |-> [ready |-> 0, total |-> 0],
                              statefulsets |-> [ready |-> 0, total |-> 0]],
               restarts_total |-> 0,
               ingresses |-> PyList("[]")],
          services        |-> <<>>,
          postgres        |-> [schemas_count |-> 0, tables_count |-> 0],
          proof           |-> [airbyte_last_sync |-> "", dbt_last_run |-> "",
                               data_availability |-> ""],
          links           |-> EmptyDict,
          assets          |-> [tables |-> <<>>,
                               pagination |-> [page |-> 1, page_size |-> 50, total |-> 0]],
          error           |-> error]]

\* summary() after its probes: the try block, and the except branch for an
\* exception that leaves it
SummaryOf_NoCatch(e, req, now, p) ==
    LET main == SummaryMain(e, req, now, p)
    IN  IF main.raised THEN InternalServerError
        ELSE [code |-> main.code, body |-> main.body]

SummaryOf(e, req, now, p) ==
    LET main == SummaryMain(e, req, now, p)
    IN  IF main.raised THEN SummaryFallback(main.error, now)
        ELSE [code |-> main.code, body |-> main.body]

\* GET /api/summary
summary(e, req, now) == SummaryOf(e, req, now, RunProbes(e, now))

\* GET /api/catalog/tables
catalog_tables(e, req) ==
    LET page      == _as_int(req.args.page, 1)
        page_size == _as_int(req.args.page_size, 50)
        cat       == postgres_catalog_tables(e, page, page_size)
    IN  IF cat.raised THEN InternalServerError
        ELSE [code |-> 200,
              body |-> [tables |-> cat.tables, pagination |-> cat.pagination]]

\* GET /api/search
search(e, req) ==
    LET q         == Strip(IF req.args.q.given THEN req.args.q.chars ELSE <<>>)
        page      == _as_int(req.args.page, 1)
        page_size == _as_int(req.args.page_size, 50)
        cat       == postgres_catalog_tables(e, page, page_size)
        res       == postgres_search(e, q)
        UiTables(tables) ==
            [i \in 1..Len(tables) |->
                 [schema |-> tables[i].schema, table |-> tables[i].table,
                  rows |-> 0, last_update |-> "", owner |-> ""]]
    IN  IF q = <<>>
        THEN (IF cat.raised THEN InternalServerError
              ELSE [code |-> 200,
                    body |-> [assets |-> [tables |-> UiTables(cat.tables),
                                          pagination |-> cat.pagination]]])
        ELSE (IF res.raised THEN InternalServerError
              ELSE [code |-> 200,
                    body |-> [assets |-> [tables |-> UiTables(res.matches),
                                          pagination |-> [page |-> 1, page_size |-> 50,
                                                          total |-> Len(res.matches)]],
                              q |-> q]])

----------------------------------------------------------------------------
(* Deployments and requests *)

AllEnvs ==
    [k8s      : {"healthy", "low_ready", "no_ingress", "core_denied", "unreachable", "lost_later"},
     hosts    : {"set", "unset"},
     pg       : {"unconfigured", "refused", "up"},
     minio    : {"unconfigured", "unreachable", "up", "up_artifacts"},
     airbyte  : {"down", "external_only", "jobs_fail", "up"},
     n8n      : {"ui_down", "no_auth", "api_fail", "up"},
     zammad   : {"ui_down", "no_auth", "api_fail", "up"},
     metabase : {"ui_down", "up"}]

\* the deployment in which every setting is given and every system answers
Nominal == [k8s |-> "healthy", hosts |-> "set", pg |-> "up", minio |-> "up_artifacts",
            airbyte |-> "up", n8n |-> "up", zammad |-> "up", metabase |-> "up"]

Faults(e) == Cardinality({d \in DOMAIN Nominal : e[d] # Nominal[d]})

\* the deployments with at most MaxFaults settings or systems off nominal
Envs == {e \in AllEnvs : Faults(e) <= MaxFaults}

\* the query strings of the requests: page and page_size absent, not a
\* number, out of range, and in range
PageArgs ==
    {[page |-> PyNone, page_size |-> PyNone],
     [page |-> PyStr("abc"), page_size |-> PyStr("2")],
     [page |-> PyStr("0"), page_size |-> PyStr("500")],
     [page |-> PyStr("2"), page_size |-> PyStr("2")],
     [page |-> PyStr("-5"), page_size |-> PyStr("0")]}

Requests ==
    {[endpoint |-> "services", args |-> [page |-> PyNone, page_size |-> PyNone]]}
        \cup {[endpoint |-> "summary", args |-> a] : a \in PageArgs}

\* the q of a query string: absent, or the characters given
QueryArgs ==
    {[given |-> FALSE, chars |-> <<>>],
     [given |-> TRUE, chars |-> <<>>],
     [given |-> TRUE, chars |-> <<" ", "\t">>],
     [given |-> TRUE, chars |-> <<"u", "s", "e", "r", "s">>],
     [given |-> TRUE, chars |-> <<"U", "S", "E", "R", "S">>],
     [given |-> TRUE, chars |-> <<" ", "A", "n", "a", " ">>],
     [given |-> TRUE, chars |-> <<"z", "z">>]}

\* the requests of GET /api/catalog/tables and GET /api/search
ListingRequests ==
    {[endpoint |-> "catalog_tables", args |-> a] : a \in PageArgs}
    \cup {[endpoint |-> "search",
            args |-> [page |-> a.page, page_size |-> a.page_size, q |-> q]] :
              a \in PageArgs, q \in QueryArgs}

\* the deployments that differ in the database only
PgEnvs == {[Nominal EXCEPT !.pg = x] : x \in {"unconfigured", "refused", "up"}}

NoEnv == [k8s |-> "healthy", hosts |-> "unset", pg |-> "unconfigured",
          minio |-> "unconfigured", airbyte |-> "down", n8n |-> "ui_down",
          zammad |-> "ui_down", metabase |-> "ui_down"]

NoRequest == [endpoint |-> "none", args |-> [page |-> PyNone, page_size |-> PyNone]]

NoResponse == [code |-> 0, body |-> NoFields]

\* no request is in flight
HttpIdle ==
    /\ env = NoEnv
    /\ request = NoRequest
    /\ response = NoResponse

\* a database of n tables: the rows of information_schema.tables in
\* (schema, table) order, each table named by its rank
Db(n) == [k \in 1..n |-> [schema |-> "public", table |-> k]]

\* the calls of postgres_catalog_tables, on a database that holds `counted`
\* tables when the count query runs and `listed` when the listing query runs,
\* and the calls of postgres_search
PgCalls ==
    [op : {"postgres_catalog_tables"}, env : PgEnvs,
     page : {-5, 0, 1, 2, 11}, page_size : {-5, 0, 1, 2, 50, 200, 500},
     counted : {0, 1, 3, MaxTables}, listed : {0, 1, 3, MaxTables}]
    \cup [op : {"postgres_search"}, env : PgEnvs,
          q : {a.chars : a \in QueryArgs}]

NoCall == [op |-> "none"]

NoResult == [raised |-> FALSE, pending |-> TRUE]

\* no call of the catalog functions is under way
CatalogIdle ==
    /\ pg_call = NoCall
    /\ pg_result = NoResult

----------------------------------------------------------------------------
(* util/dbt_catalog_minio.py: the catalog cache *)

_CACHE_TTL_SEC == 60

\* the instants at which something happens: the TTL and the seconds around it
Instants == {0, _CACHE_TTL_SEC, _CACHE_TTL_SEC + 1}

\* the threads that serve requests
Threads == {"t1", "t2"}

\* the project argument of a call: not given, or a project name
Projects == {"", "his_dmo", "sales"}

\* f"{bucket}:{key}" with key = f"{project}/catalog.json"
CacheKey(project) ==
    "dbt-docs:" \o (IF project = "" THEN "his_dmo" ELSE project) \o "/catalog.json"

CacheKeys == {CacheKey(p) : p \in Projects}

\* the catalog.json the object store holds under a key, by its version
Doc(key, version) == [key |-> key, version |-> version]

NoPayload == [key |-> "", version |-> 0]

\* _CACHE.get(cache_key) when the key is not in _CACHE
NoEntry == [ts |-> -1, payload |-> NoPayload]

\* hit and (now - int(hit.get("ts", 0))) <= _CACHE_TTL_SEC, strict variant
Fresh_Strict(hit, now) == hit # NoEntry /\ (now - hit.ts) < _CACHE_TTL_SEC

\* hit and (now - int(hit.get("ts", 0))) <= _CACHE_TTL_SEC
Fresh(hit, now) == hit # NoEntry /\ (now - hit.ts) <= _CACHE_TTL_SEC

\* _CACHE after a write of the timestamp alone
Stored_TimestampOnly(c, call) ==
    [c EXCEPT ![call.key] = [ts |-> call.now, payload |-> c[call.key].payload]]

\* _CACHE after _CACHE[cache_key] = {"ts": now, "payload": payload}
Stored(c, call) ==
    [c EXCEPT ![call.key] = [ts |-> call.now, payload |-> call.payload]]

\* a thread that is not in _load_catalog
IdleCall == [pc |-> "idle", key |-> "", now |-> 0, hit |-> NoEntry,
             payload |-> NoPayload,
             ret |-> [raised |-> FALSE, payload |-> NoPayload], expect |-> NoPayload]

\* the cache is empty and no call is under way
CacheIdle ==
    /\ time = 0
    /\ _CACHE = [k \in CacheKeys |-> NoEntry]
    /\ store = [k \in CacheKeys |-> 1]
    /\ last_fetch = [k \in CacheKeys |-> NoPayload]
    /\ calls = [t \in Threads |-> IdleCall]

\* no client is paging through the catalog
AssetsIdle ==
    assets = [cat |-> [generated_at |-> "", nodes |-> <<>>, sources |-> <<>>],
              project |-> "", q |-> <<>>, page_size |-> 0, raised |-> FALSE, pages |-> <<>>]

\* no handler is calling its probes
SweepIdle == sweep = [at |-> 0, running |-> FALSE, started |-> {}, returned |-> {}]

----------------------------------------------------------------------------
(* Inputs of the contract and the normalizer *)

Stamp == PyStr("2025-12-31T23:59:59Z")

GarbageDict == [t |-> "dict", s |-> "{'k': 1}", f |-> [k |-> PyInt("1")]]

StatusInputs ==
    {PyStr(x) : x \in STATUSES \cup {"", "operational", "Down", "bogus"}}
        \cup {PyNone, PyInt("0"), PyInt("7"), PyList("['DOWN']")}

LinksInputs ==
    {PyNone, EmptyDict,
     PyDict([ui |-> PyStr("http://ui")]),
     PyDict([ui |-> PyStr("http://ui"), api |-> PyNone]),
     PyDict([ui |-> PyStr("http://ui"), api |-> PyStr("http://api"), docs |-> PyStr("http://docs")]),
     PyStr("http://ui")}

EvidenceInputs ==
    {EmptyDict,
     PyDict([type |-> PyStr("http"), details |-> GarbageDict]),
     PyDict([type |-> PyNone, details |-> PyStr("text")]),
     PyDict([type |-> PyStr("db"), details |-> GarbageDict, raw |-> PyInt("1")]),
     PyStr("text")}

\* evidence given pre-shaped, or as evidence_type / evidence_details
EvidenceArgs ==
    [evidence : EvidenceInputs, evidence_type : {PyNone}, evidence_details : {PyNone}]
        \cup [evidence : {PyNone}, evidence_type : {PyNone, PyStr("k8s")},
              evidence_details : {PyNone, GarbageDict, PyStr("text")}]

ServiceObjCalls ==
    {[name |-> n, status |-> st, reason |-> r, last_checked |-> lc, links |-> l,
      evidence |-> e.evidence, evidence_type |-> e.evidence_type,
      evidence_details |-> e.evidence_details] :
        n \in {PyStr("minio"), PyNone}, st \in StatusInputs,
        r \in {PyStr("why"), PyNone}, lc \in {PyStr(""), Stamp},
        l \in LinksInputs, e \in EvidenceArgs}

NoArgs == [name |-> PyNone, status |-> PyNone, reason |-> PyNone, last_checked |-> PyNone,
           links |-> PyNone, evidence |-> PyNone, evidence_type |-> PyNone,
           evidence_details |-> PyNone]

\* a dict holding the items whose value is not Absent
Absent == [t |-> "absent", s |-> "", f |-> NoFields]

DictOf(items) ==
    PyDict([k \in {j \in DOMAIN items : items[j] # Absent} |-> items[k]])

\* direct records {"name":..., "status":...} and legacy records {"service": "<name>", ...}
DirectBlobs ==
    {DictOf([name |-> n, service |-> sv, status |-> st, reason |-> r,
             last_checked |-> lc, links |-> l, evidence |-> e]) :
        n  \in {Absent, PyStr(""), PyStr("postgres"), PyInt("7")},
        sv \in {Absent, PyStr(""), PyStr("legacy"), PyInt("7")},
        st \in {Absent, PyStr(""), PyStr("OPERATIONAL"), PyStr("bogus"), PyInt("0")},
        r  \in {Absent, PyStr("why")},
        lc \in {Absent, Stamp},
        l  \in {Absent, PyStr("http://ui"),
                PyDict([ui |-> PyStr("http://ui"), docs |-> PyStr("http://docs")])},
        e  \in {Absent, PyStr("text"),
                PyDict([type |-> PyStr("http"), details |-> PyStr("text")])}}

\* wrapped records {"service": {...}}, alone or next to outer fields that must be ignored
WrappedBlobs ==
    {PyDict([service |-> d]) : d \in DirectBlobs}
        \cup {PyDict([service |-> d, name |-> PyStr("outer"), status |-> PyStr("OPERATIONAL"),
                      reason |-> PyStr("outer"), minio |-> GarbageDict]) : d \in DirectBlobs}

NonMappingBlobs == {PyNone, PyStr("postgres"), PyInt("7"), PyList("['x']")}

RawBlobs == DirectBlobs \cup WrappedBlobs \cup NonMappingBlobs

----------------------------------------------------------------------------
(* The contract and the normalizer applied to drawn inputs *)

\* nothing is given to the contract and the normalizer
ContractIdle ==
    /\ so_args = NoArgs
    /\ so_ret = NotCalled
    /\ blob = Absent
    /\ fallback_name = PyNone
    /\ us_ret = NotCalled
    /\ uc_ret = NotCalled
    /\ us_again = NotCalled

\* nothing is given to the aggregator
AggIdle ==
    /\ services = <<>>
    /\ platform_status = "not_called"
    /\ fraction = [x |-> -1, y |-> -1]

InitContract ==
    /\ clock \in 1..MaxClock
    /\ AggIdle
    /\ HttpIdle
    /\ CatalogIdle
    /\ CacheIdle
    /\ SweepIdle
    /\ AssetsIdle
    /\ so_ret = NotCalled
    /\ us_ret = NotCalled
    /\ uc_ret = NotCalled
    /\ us_again = NotCalled
    /\ \/ so_args \in ServiceObjCalls /\ blob = Absent /\ fallback_name = PyNone
       \/ so_args = NoArgs /\ blob \in RawBlobs /\ fallback_name = PyStr("minio")

CallServiceObj ==
    /\ so_args # NoArgs
    /\ so_ret = NotCalled
    /\ so_ret' = service_obj(so_args, clock)
    /\ UNCHANGED <<clock, so_args, blob, fallback_name, us_ret, uc_ret, us_again, aggVars, httpVars, catalogVars, cacheVars, sweep, assets>>

CallUnwrapService ==
    /\ blob # Absent
    /\ us_ret = NotCalled
    /\ us_ret' = _unwrap_service(blob, fallback_name, clock)
    /\ UNCHANGED <<clock, so_args, so_ret, blob, fallback_name, uc_ret, us_again, aggVars, httpVars, catalogVars, cacheVars, sweep, assets>>

CallUnwrapToContract ==
    /\ blob # Absent
    /\ uc_ret = NotCalled
    /\ uc_ret' = _unwrap_to_contract(blob, fallback_name, clock)
    /\ UNCHANGED <<clock, so_args, so_ret, blob, fallback_name, us_ret, us_again, aggVars, httpVars, catalogVars, cacheVars, sweep, assets>>

\* the normalizer applied to a record it produced, as operational_fraction and
\* compute_platform_status do with the records of _unwrap_to_contract
CallUnwrapServiceAgain ==
    /\ us_ret # NotCalled
    /\ us_again = NotCalled
    /\ us_again' = _unwrap_service(us_ret, fallback_name, clock)
    /\ UNCHANGED <<clock, so_args, so_ret, blob, fallback_name, us_ret, uc_ret, aggVars, httpVars, catalogVars, cacheVars, sweep, assets>>

NextContract ==
    \/ CallServiceObj
    \/ CallUnwrapService
    \/ CallUnwrapToContract
    \/ CallUnwrapServiceAgain

SpecContract == InitContract /\ [][NextContract]_vars

----------------------------------------------------------------------------
(* The aggregator applied to drawn lists of service records *)

\* a service record as the probes build it
ServiceRecord(n, st) ==
    service_obj(SoArgs(PyStr(n), PyStr(st), PyStr(""), Stamp, EmptyDict, PyNone), 1)

RecordNames == {REQUIRED_SERVICES_ORDER[k] : k \in 1..Len(REQUIRED_SERVICES_ORDER)}
                   \cup {"grafana"}

Records == {ServiceRecord(n, st) : n \in RecordNames, st \in STATUSES}

\* every list of at most MaxLen records: empty, duplicates, unrecognized names
ShortLists == UNION {[1..n -> Records] : n \in 0..MaxLen}

\* the nine required records, at most MaxOff of them not OPERATIONAL
SweepLists ==
    UNION {
        {[k \in 1..Len(SweepOrder) |->
              ServiceRecord(SweepOrder[k], IF k \in off THEN st[k] ELSE "OPERATIONAL")] :
            st \in [off -> STATUSES \ {"OPERATIONAL"}]} :
        off \in {o \in SUBSET (1..Len(SweepOrder)) : Cardinality(o) <= MaxOff}}

InitAgg ==
    /\ clock = 1
    /\ ContractIdle
    /\ HttpIdle
    /\ CatalogIdle
    /\ CacheIdle
    /\ SweepIdle
    /\ AssetsIdle
    /\ services \in ShortLists \cup SweepLists
    /\ platform_status = "not_called"
    /\ fraction = [x |-> -1, y |-> -1]

CallComputePlatformStatus ==
    /\ platform_status = "not_called"
    /\ platform_status' = compute_platform_status(services, clock)
    /\ UNCHANGED <<clock, contractVars, services, fraction, httpVars, catalogVars, cacheVars, sweep, assets>>

CallOperationalFraction ==
    /\ fraction.y = -1
    /\ fraction' = operational_fraction(services, clock)
    /\ UNCHANGED <<clock, contractVars, services, platform_status, httpVars, catalogVars, cacheVars, sweep, assets>>

NextAgg ==
    \/ CallComputePlatformStatus
    \/ CallOperationalFraction

SpecAgg == InitAgg /\ [][NextAgg]_vars

----------------------------------------------------------------------------
(* The request handlers applied to drawn deployments and requests *)

InitHttp ==
    /\ clock = 1
    /\ ContractIdle
    /\ AggIdle
    /\ CatalogIdle
    /\ CacheIdle
    /\ SweepIdle
    /\ AssetsIdle
    /\ \/ env \in Envs /\ request \in Requests
       \/ env \in PgEnvs /\ request \in ListingRequests
    /\ response = NoResponse

HandleServices ==
    /\ request.endpoint = "services"
    /\ response = NoResponse
    /\ response' = api_services(env, clock)
    /\ UNCHANGED <<clock, contractVars, aggVars, env, request, catalogVars, cacheVars, sweep, assets>>

HandleSummary ==
    /\ request.endpoint = "summary"
    /\ response = NoResponse
    /\ response' = summary(env, request, clock)
    /\ UNCHANGED <<clock, contractVars, aggVars, env, request, catalogVars, cacheVars, sweep, assets>>

HandleCatalogTables ==
    /\ request.endpoint = "catalog_tables"
    /\ response = NoResponse
    /\ response' = catalog_tables(env, request)
    /\ UNCHANGED <<clock, contractVars, aggVars, env, request, catalogVars, cacheVars, sweep, assets>>

HandleSearch ==
    /\ request.endpoint = "search"
    /\ response = NoResponse
    /\ response' = search(env, request)
    /\ UNCHANGED <<clock, contractVars, aggVars, env, request, catalogVars, cacheVars, sweep, assets>>

NextHttp ==
    \/ HandleServices
    \/ HandleSummary
    \/ HandleCatalogTables
    \/ HandleSearch

SpecHttp == InitHttp /\ [][NextHttp]_vars

----------------------------------------------------------------------------
(* The catalog functions called directly *)

InitCatalog ==
    /\ clock = 1
    /\ ContractIdle
    /\ AggIdle
    /\ HttpIdle
    /\ CacheIdle
    /\ SweepIdle
    /\ AssetsIdle
    /\ pg_call \in PgCalls
    /\ pg_result = NoResult

CallCatalogTables ==
    /\ pg_call.op = "postgres_catalog_tables"
    /\ pg_result = NoResult
    /\ pg_result' = CatalogQueries(pg_call.env, pg_call.page, pg_call.page_size,
                                   Db(pg_call.counted), Db(pg_call.listed))
    /\ UNCHANGED <<clock, contractVars, aggVars, httpVars, pg_call, cacheVars, sweep, assets>>

CallSearch ==
    /\ pg_call.op = "postgres_search"
    /\ pg_result = NoResult
    /\ pg_result' = postgres_search(pg_call.env, pg_call.q)
                        @@ [connected |-> postgres_search_connects(pg_call.env, pg_call.q)]
    /\ UNCHANGED <<clock, contractVars, aggVars, httpVars, pg_call, cacheVars, sweep, assets>>

NextCatalog ==
    \/ CallCatalogTables
    \/ CallSearch

SpecCatalog == InitCatalog /\ [][NextCatalog]_vars

----------------------------------------------------------------------------
(* _load_catalog called from concurrent requests *)

InitCache ==
    /\ clock = 1
    /\ ContractIdle
    /\ AggIdle
    /\ HttpIdle
    /\ CatalogIdle
    /\ CacheIdle
    /\ SweepIdle
    /\ AssetsIdle

\* now = int(time.time())
ReadClock(t, project) ==
    /\ calls[t].pc = "idle"
    /\ calls' = [calls EXCEPT ![t] = [IdleCall EXCEPT !.pc = "lookup",
                                                      !.key = CacheKey(project),
                                                      !.now = time]]
    /\ UNCHANGED <<clock, contractVars, aggVars, httpVars, catalogVars, sweep, assets,
                   time, _CACHE, store, last_fetch>>

\* the payload of the latest successful fetch of the key of t's call, once
\* every fetch of that key has reached the cache
LatestFetch(t, hit) ==
    IF \E u \in Threads : calls[u].pc = "store" /\ calls[u].key = calls[t].key
    THEN hit.payload
    ELSE last_fetch[calls[t].key]

\* hit = _CACHE.get(cache_key), and the return of hit["payload"] when fresh
Lookup(t) ==
    LET call == calls[t]
        hit  == _CACHE[call.key]
    IN  /\ call.pc = "lookup"
        /\ calls' = [calls EXCEPT ![t] =
                         IF Fresh(hit, call.now)
                         THEN [call EXCEPT !.pc = "done", !.hit = hit,
                                           !.ret = [raised |-> FALSE, payload |-> hit.payload],
                                           !.expect = LatestFetch(t, hit)]
                         ELSE [call EXCEPT !.pc = "fetch", !.hit = hit]]
        /\ UNCHANGED <<clock, contractVars, aggVars, httpVars, catalogVars, sweep, assets,
                       time, _CACHE, store, last_fetch>>

\* s3.get_object and json.loads return the document
FetchOk(t) ==
    LET call == calls[t]
        payload == Doc(call.key, store[call.key])
    IN  /\ call.pc = "fetch"
        /\ calls' = [calls EXCEPT ![t] = [call EXCEPT !.pc = "store", !.payload = payload]]
        /\ last_fetch' = [last_fetch EXCEPT ![call.key] = payload]
        /\ UNCHANGED <<clock, contractVars, aggVars, httpVars, catalogVars, sweep, assets,
                       time, _CACHE, store>>

\* s3.get_object or json.loads raises
FetchFail(t) ==
    LET call == calls[t]
    IN  /\ call.pc = "fetch"
        /\ calls' = [calls EXCEPT ![t] =
                         [call EXCEPT !.pc = "done",
                                      !.ret = [raised |-> TRUE, payload |-> NoPayload]]]
        /\ UNCHANGED <<clock, contractVars, aggVars, httpVars, catalogVars, sweep, assets,
                       time, _CACHE, store, last_fetch>>

\* _CACHE[cache_key] = {"ts": now, "payload": payload}; return payload
Store(t) ==
    LET call == calls[t]
    IN  /\ call.pc = "store"
        /\ _CACHE' = Stored(_CACHE, call)
        /\ calls' = [calls EXCEPT ![t] =
                         [call EXCEPT !.pc = "done",
                                      !.ret = [raised |-> FALSE, payload |-> call.payload]]]
        /\ UNCHANGED <<clock, contractVars, aggVars, httpVars, catalogVars, sweep, assets,
                       time, store, last_fetch>>

\* the caller has the result; the thread takes the next request
Return(t) ==
    /\ calls[t].pc = "done"
    /\ calls' = [calls EXCEPT ![t] = IdleCall]
    /\ UNCHANGED <<clock, contractVars, aggVars, httpVars, catalogVars, sweep, assets,
                   time, _CACHE, store, last_fetch>>

\* time passes until the instant d
Tick(d) ==
    /\ d > time
    /\ time' = d
    /\ UNCHANGED <<clock, contractVars, aggVars, httpVars, catalogVars, sweep, assets,
                   _CACHE, store, last_fetch, calls>>

\* dbt docs generate uploads a new catalog.json
Publish(k) ==
    /\ store[k] < MaxVersion
    /\ store' = [store EXCEPT ![k] = @ + 1]
    /\ UNCHANGED <<clock, contractVars, aggVars, httpVars, catalogVars, sweep, assets,
                   time, _CACHE, last_fetch, calls>>

NextCache ==
    \/ \E t \in Threads, project \in Projects : ReadClock(t, project)
    \/ \E t \in Threads : Lookup(t)
    \/ \E t \in Threads : FetchOk(t)
    \/ \E t \in Threads : FetchFail(t)
    \/ \E t \in Threads : Store(t)
    \/ \E t \in Threads : Return(t)
    \/ \E d \in Instants : Tick(d)
    \/ \E k \in CacheKeys : Publish(k)

SpecCache == InitCache /\ [][NextCache]_vars

----------------------------------------------------------------------------
(* The probe calls of services() and summary(), one at a time *)

\* the probe calls in the order of the statements of the handlers
ProbeProgram_DbtFirst ==
    <<"kubernetes", "ingress_tls", "dbt", "minio", "postgres", "airbyte",
      "n8n", "zammad", "metabase">>

ProbeProgram ==
    <<"kubernetes", "ingress_tls", "minio", "postgres", "airbyte", "dbt",
      "n8n", "zammad", "metabase">>

InitSweep ==
    /\ clock = 1
    /\ ContractIdle
    /\ AggIdle
    /\ CatalogIdle
    /\ CacheIdle
    /\ AssetsIdle
    /\ env \in {e \in AllEnvs : Faults(e) <= 1}
    /\ request \in Requests
    /\ response = NoResponse
    /\ sweep = [at |-> 1, running |-> FALSE, started |-> {}, returned |-> {}]

\* the handler calls its next probe
StartProbe ==
    /\ response = NoResponse
    /\ sweep.at \in 1..Len(ProbeProgram)
    /\ ~sweep.running
    /\ sweep' = [sweep EXCEPT !.running = TRUE,
                              !.started = @ \cup {ProbeProgram[sweep.at]}]
    /\ UNCHANGED <<clock, contractVars, aggVars, httpVars, catalogVars, cacheVars, assets>>

\* the probe returns, or raises and ends the sequence of calls
FinishProbe ==
    /\ sweep.running
    /\ sweep' = IF ProbeProgram[sweep.at] = "kubernetes" /\ k8s_summary(env, clock).t = "raise"
                THEN [sweep EXCEPT !.running = FALSE, !.at = Len(ProbeProgram) + 1]
                ELSE [sweep EXCEPT !.running = FALSE, !.at = @ + 1,
                                   !.returned = @ \cup {ProbeProgram[sweep.at]}]
    /\ UNCHANGED <<clock, contractVars, aggVars, httpVars, catalogVars, cacheVars, assets>>

\* the handler builds its response from the results of the probes
Respond ==
    /\ response = NoResponse
    /\ sweep.at = Len(ProbeProgram) + 1
    /\ response' = IF request.endpoint = "services"
                   THEN api_services(env, clock)
                   ELSE summary(env, request, clock)
    /\ UNCHANGED <<clock, contractVars, aggVars, env, request, catalogVars, cacheVars, sweep, assets>>

NextSweep ==
    \/ StartProbe
    \/ FinishProbe
    \/ Respond

SpecSweep == InitSweep /\ [][NextSweep]_vars

----------------------------------------------------------------------------
(* util/dbt_catalog_minio.py: the tables of the catalog document *)

\* the characters of the names in the documents, in the order of their code
\* points
CodePoints ==
    <<"B", "a", "b", "c", "d", "e", "i", "l", "n", "o", "r", "s", "t", "u", "v", "w">>

\* a < b of two str
RECURSIVE StrLess(_, _)
StrLess(a, b) ==
    LET Ord(c) == CHOOSE i \in 1..Len(CodePoints) : CodePoints[i] = c
    IN  IF b = <<>> THEN FALSE
        ELSE IF a = <<>> THEN TRUE
        ELSE IF Head(a) = Head(b) THEN StrLess(Tail(a), Tail(b))
        ELSE Ord(Head(a)) < Ord(Head(b))

\* (r["schema"], r["table"], r["owner"]) < (s["schema"], s["table"], s["owner"])
KeyLess(r, s) ==
    IF r.schema # s.schema THEN StrLess(r.schema, s.schema)
    ELSE IF r.table # s.table THEN StrLess(r.table, s.table)
    ELSE StrLess(r.owner, s.owner)

\* out after push(v, owner) for every item of a dict of the document
RECURSIVE Pushed(_, _, _)
Pushed(items, generated_at, is_source) ==
    IF items = <<>> THEN <<>>
    ELSE LET item   == Head(items)
             owner  == IF is_source THEN <<"s", "o", "u", "r", "c", "e">>
                       ELSE IF item.type = <<>> THEN <<"n", "o", "d", "e">>
                       ELSE item.type
             pushed == IF item.schema = <<>> \/ item.name = <<>> THEN <<>>
                       ELSE <<[schema |-> item.schema, table |-> item.name,
                               rows |-> item.num_rows, last_update |-> generated_at,
                               owner |-> owner]>>
         IN  pushed \o Pushed(Tail(items), generated_at, is_source)

\* uniq: the rows of out whose (schema, table, owner) was not seen before
RECURSIVE Uniq(_, _)
Uniq(out, seen) ==
    IF out = <<>> THEN <<>>
    ELSE LET r == Head(out)
             k == <<r.schema, r.table, r.owner>>
         IN  IF k \in seen THEN Uniq(Tail(out), seen)
             ELSE <<r>> \o Uniq(Tail(out), seen \cup {k})

\* uniq.sort(key=lambda x: (x["schema"], x["table"], x["owner"])): stable
RECURSIVE SortedByKey(_)
SortedByKey(rows) ==
    IF rows = <<>> THEN <<>>
    ELSE LET r      == rows[Len(rows)]
             front  == SortedByKey(SubSeq(rows, 1, Len(rows) - 1))
             before == SelectSeq(front, LAMBDA s : ~KeyLess(r, s))
             after  == SelectSeq(front, LAMBDA s : KeyLess(r, s))
         IN  before \o <<r>> \o after

\* _rows_from_catalog(cat)
_rows_from_catalog(cat) ==
    SortedByKey(Uniq(Pushed(cat.nodes, cat.generated_at, FALSE)
                         \o Pushed(cat.sources, cat.generated_at, TRUE), {}))

\* get_dbt_catalog_assets(Cfg, project, q, page, page_size) once _load_catalog
\* returned cat, with the slice taken one page further
get_dbt_catalog_assets_NextPage(cat, project, q, page, page_size) ==
    LET term  == Lower(Strip(q))
        all   == _rows_from_catalog(cat)
        rows  == IF term # <<>>
                 THEN SelectSeq(all, LAMBDA r : \/ Contains(Lower(r.schema), term)
                                                \/ Contains(Lower(r.table), term)
                                                \/ Contains(Lower(r.owner), term))
                 ELSE all
        total == Len(rows)
        p     == Max(1, IF page = 0 THEN 1 ELSE page)
        ps    == Max(1, Min(200, IF page_size = 0 THEN 50 ELSE page_size))
        start == p * ps
        end   == start + ps
        page_rows == SubSeq(rows, start + 1, Min(end, total))
        name  == IF project = "" THEN "his_dmo" ELSE project
    IN  [pagination |-> [page |-> p, page_size |-> ps, total |-> total],
         tables |-> page_rows,
         evidence |-> [bucket |-> "dbt-docs", key |-> name \o "/catalog.json",
                       project |-> name, total |-> total,
                       returned |-> Len(page_rows), cache_ttl_sec |-> _CACHE_TTL_SEC]]

\* get_dbt_catalog_assets(Cfg, project, q, page, page_size) once _load_catalog
\* returned cat
get_dbt_catalog_assets(cat, project, q, page, page_size) ==
    LET term  == Lower(Strip(q))
        all   == _rows_from_catalog(cat)
        rows  == IF term # <<>>
                 THEN SelectSeq(all, LAMBDA r : \/ Contains(Lower(r.schema), term)
                                                \/ Contains(Lower(r.table), term)
                                                \/ Contains(Lower(r.owner), term))
                 ELSE all
        total == Len(rows)
        p     == Max(1, IF page = 0 THEN 1 ELSE page)
        ps    == Max(1, Min(200, IF page_size = 0 THEN 50 ELSE page_size))
        start == (p - 1) * ps
        end   == start + ps
        page_rows == SubSeq(rows, start + 1, Min(end, total))
        name  == IF project = "" THEN "his_dmo" ELSE project
    IN  [pagination |-> [page |-> p, page_size |-> ps, total |-> total],
         tables |-> page_rows,
         evidence |-> [bucket |-> "dbt-docs", key |-> name \o "/catalog.json",
                       project |-> name, total |-> total,
                       returned |-> Len(page_rows), cache_ttl_sec |-> _CACHE_TTL_SEC]]

\* the entries of "nodes" and of "sources" of the largest document of the
\* model, in the order of the document
CatalogItems ==
    [nodes |->
        <<[schema |-> <<"b">>, name |-> <<"t">>, type |-> <<"t", "a", "b", "l", "e">>,
           num_rows |-> PyNum(1)],
          [schema |-> <<"B">>, name |-> <<"u">>, type |-> <<>>, num_rows |-> PyStr("")],
          [schema |-> <<"b">>, name |-> <<"t">>, type |-> <<"t", "a", "b", "l", "e">>,
           num_rows |-> PyNum(2)],
          [schema |-> <<"a", "b">>, name |-> <<"t">>, type |-> <<"v", "i", "e", "w">>,
           num_rows |-> PyNum(3)],
          [schema |-> <<>>, name |-> <<"t">>, type |-> <<"v", "i", "e", "w">>,
           num_rows |-> PyStr("")]>>,
     sources |->
        <<[schema |-> <<"b">>, name |-> <<"t">>, type |-> <<>>, num_rows |-> PyNum(1)],
          [schema |-> <<"a">>, name |-> <<>>, type |-> <<>>, num_rows |-> PyStr("")]>>]

\* the catalog.json documents of the model: at most MaxNodes of the nodes and
\* MaxSources of the sources, in their order
Catalogs ==
    LET Kept(items, S) ==
            LET at == SelectSeq([i \in 1..Len(items) |-> i], LAMBDA i : i \in S)
            IN  [k \in 1..Len(at) |-> items[at[k]]]
        Parts(items, n) ==
            {Kept(items, S) : S \in {T \in SUBSET (1..Len(items)) : Cardinality(T) <= n}}
    IN  [generated_at : {"2024-01-01T00:00:00Z"},
         nodes : Parts(CatalogItems.nodes, MaxNodes),
         sources : Parts(CatalogItems.sources, MaxSources)]

\* a client about to page through the tables of a project, with one search
\* term and one page size
InitAssets ==
    /\ clock = 1
    /\ ContractIdle
    /\ AggIdle
    /\ HttpIdle
    /\ CatalogIdle
    /\ CacheIdle
    /\ SweepIdle
    /\ assets \in [cat : Catalogs, project : {"", "sales"},
                   q : {<<>>, <<" ", "B", " ">>, <<"v", "i", "e">>, <<"c">>},
                   page_size : {-5, 0, 1, 2, 201}, raised : {FALSE}, pages : {<<>>}]

\* get_dbt_catalog_assets for the next page: _load_catalog answers from the
\* cache or fetches and stores the document
GetAssets ==
    LET key  == CacheKey(assets.project)
        hit  == _CACHE[key]
        call == [key |-> key, now |-> time, payload |-> Doc(key, store[key])]
        page == Len(assets.pages) + 1
    IN  /\ page <= MaxPages
        /\ IF Fresh(hit, time)
           THEN UNCHANGED <<_CACHE, last_fetch>>
           ELSE /\ _CACHE' = Stored(_CACHE, call)
                /\ last_fetch' = [last_fetch EXCEPT ![key] = call.payload]
        /\ assets' = [assets EXCEPT
               !.raised = FALSE,
               !.pages = Append(@, get_dbt_catalog_assets(assets.cat, assets.project,
                                                          assets.q, page, assets.page_size))]
        /\ UNCHANGED <<clock, contractVars, aggVars, httpVars, catalogVars, sweep,
                       time, store, calls>>

\* get_dbt_catalog_assets when the cache has no fresh entry and s3.get_object
\* or json.loads raises
GetAssetsRaises ==
    /\ ~Fresh(_CACHE[CacheKey(assets.project)], time)
    /\ ~assets.raised
    /\ Len(assets.pages) < MaxPages
    /\ assets' = [assets EXCEPT !.raised = TRUE]
    /\ UNCHANGED <<clock, contractVars, aggVars, httpVars, catalogVars, sweep, cacheVars>>

NextAssets ==
    \/ GetAssets
    \/ GetAssetsRaises
    \/ \E d \in Instants : Tick(d)

SpecAssets == InitAssets /\ [][NextAssets]_vars

----------------------------------------------------------------------------
(* Properties of the contract and the normalizer *)

ValidStatus(v) == IsStr(v) /\ v.s \in STATUSES

\* the links argument is of its declared type, Dict | None
LinksWellTyped(a) == a.links = PyNone \/ IsDict(a.links)

\* C4: service_obj returns a record for every status input; the record keeps a
\* status of the four-value enum and has status INFO for every other input.
C4_StatusPreservedOrInfo ==
    (so_ret # NotCalled /\ LinksWellTyped(so_args)) =>
        /\ IsDict(so_ret)
        /\ Get(so_ret, "status") =
               IF ValidStatus(so_args.status) THEN so_args.status ELSE PyStr("INFO")

C4_Witness ==
    /\ so_args.status = PyStr("operational")
    /\ IsDict(so_ret)
    /\ Get(so_ret, "status") = PyStr("INFO")

CanonicalKeys == {"service", "name", "status", "reason", "last_checked", "links", "evidence"}

CanonicalShape(r) ==
    /\ DOMAIN r.f = CanonicalKeys
    /\ r.f["service"] = r.f["name"]
    /\ ValidStatus(r.f["status"])
    /\ IsDict(r.f["links"])
    /\ DOMAIN r.f["links"].f = {"ui", "api"}
    /\ IsDict(r.f["evidence"])
    /\ DOMAIN r.f["evidence"].f = {"type", "details"}

\* C5: every record service_obj, _unwrap_service or _unwrap_to_contract returns
\* has exactly the seven canonical keys, service = name, a status of the enum,
\* links with exactly ui and api (absent or null given as "") and evidence with
\* exactly type and details.
C5_CanonicalShape ==
    /\ \A r \in {so_ret, us_ret, uc_ret, us_again} : IsDict(r) => CanonicalShape(r)
    /\ IsDict(so_ret) =>
           \A k \in {"ui", "api"} :
               Get(Get(so_ret, "links"), k) =
                   IF so_args.links # PyNone /\ Get(so_args.links, k) # PyNone
                   THEN Get(so_args.links, k)
                   ELSE PyStr("")

C5_Witness ==
    /\ IsDict(so_ret)
    /\ IsDict(so_args.links)
    /\ "docs" \in DOMAIN so_args.links.f
    /\ so_args.evidence = PyStr("text")
    /\ Get(Get(so_ret, "links"), "ui") = PyStr("http://ui")

\* the record the normalizer resolves: the inner mapping when raw["service"] is a
\* mapping, the raw mapping otherwise, nothing when the raw result is no mapping
ResolvedRecord(b) ==
    IF ~IsDict(b) THEN EmptyDict
    ELSE IF "service" \in DOMAIN b.f /\ IsDict(b.f["service"]) THEN b.f["service"]
    ELSE b

Normalized == {r \in {us_ret, uc_ret} : r # NotCalled}

\* C6: a raw result that is no mapping, or whose resolved record has no status or
\* an empty one, is normalized to DOWN; the normalized status is OPERATIONAL only
\* when the resolved record's status is exactly OPERATIONAL.
C6_FailClosed ==
    \A r \in Normalized :
        /\ (~IsDict(blob) \/ ~Truthy(Get(ResolvedRecord(blob), "status")))
               => Get(r, "status") = PyStr("DOWN")
        /\ Get(r, "status") = PyStr("OPERATIONAL")
               => Get(ResolvedRecord(blob), "status") = PyStr("OPERATIONAL")

C6_Witness ==
    /\ blob = PyList("['x']")
    /\ uc_ret # NotCalled
    /\ Get(uc_ret, "status") = PyStr("DOWN")

\* the fields other than the name are read from the resolved record
FieldsFromResolved(r) ==
    LET rec == ResolvedRecord(blob)
    IN  /\ Get(r, "status") =
               (IF ~Truthy(Get(rec, "status")) THEN PyStr("DOWN")
                ELSE IF ValidStatus(Str(Get(rec, "status"))) THEN Str(Get(rec, "status"))
                ELSE PyStr("INFO"))
        /\ Get(r, "reason") =
               (IF Truthy(Get(rec, "reason")) THEN Str(Get(rec, "reason")) ELSE PyStr(""))

\* C7 (as stated): the name is the non-empty name field, else the service field
\* when it is a string, else the fallback name; every field is read from the
\* inner mapping when raw["service"] is a mapping and from the raw mapping otherwise.
C7_NameResolution_Stated ==
    \A r \in Normalized :
        LET rec == ResolvedRecord(blob)
        IN  /\ FieldsFromResolved(r)
            /\ Get(r, "name") =
                   (IF Truthy(Get(rec, "name")) THEN Str(Get(rec, "name"))
                    ELSE IF IsStr(Get(rec, "service")) THEN Get(rec, "service")
                    ELSE fallback_name)

\* C7 (amended): as stated, but an empty service string is skipped like an empty
\* name: the name is the non-empty name field, else the service field when it is
\* a non-empty string, else the fallback name.
C7_NameResolution ==
    \A r \in Normalized :
        LET rec == ResolvedRecord(blob)
        IN  /\ FieldsFromResolved(r)
            /\ Get(r, "name") =
                   (IF Truthy(Get(rec, "name")) THEN Str(Get(rec, "name"))
                    ELSE IF IsStr(Get(rec, "service")) /\ Get(rec, "service").s # ""
                         THEN Get(rec, "service")
                    ELSE fallback_name)

C7_Witness ==
    /\ IsDict(blob)
    /\ IsDict(Get(blob, "service"))
    /\ Get(blob, "name") = PyStr("outer")
    /\ Get(Get(blob, "service"), "name") = PyNone
    /\ Get(Get(blob, "service"), "service") = PyStr("legacy")
    /\ us_ret # NotCalled
    /\ Get(us_ret, "name") = PyStr("legacy")

\* C8: normalizing a normalized record again, with the same fallback name, gives
\* the same record.
C8_Idempotent ==
    us_again # NotCalled => us_again = us_ret

C8_Witness ==
    /\ us_again # NotCalled
    /\ IsDict(Get(blob, "service"))
    /\ Get(us_ret, "status") = PyStr("OPERATIONAL")
    /\ Get(us_ret, "name") = PyStr("7")

----------------------------------------------------------------------------
(* Properties of the aggregator *)

NameOf(rec) == rec.f["name"].s

StatusOf(rec) == rec.f["status"].s

Listed == 1..Len(services)

\* C1: compute_platform_status returns DOWN iff some record named kubernetes,
\* postgres or ingress_tls is DOWN; otherwise DEGRADED iff some record is DOWN
\* or DEGRADED; otherwise OPERATIONAL.
C1_PlatformStatusRule ==
    platform_status # "not_called" =>
        LET criticalDown ==
                \E i \in Listed :
                    /\ NameOf(services[i]) \in {"kubernetes", "postgres", "ingress_tls"}
                    /\ StatusOf(services[i]) = "DOWN"
            anyBad ==
                \E i \in Listed : StatusOf(services[i]) \in {"DOWN", "DEGRADED"}
        IN  /\ platform_status = "DOWN" <=> criticalDown
            /\ platform_status = "DEGRADED" <=> (~criticalDown /\ anyBad)
            /\ platform_status = "OPERATIONAL" <=> ~anyBad

C1_Witness ==
    /\ platform_status = "DOWN"
    /\ Len(services) = 9
    /\ \E i \in Listed :
           NameOf(services[i]) = "ingress_tls" /\ StatusOf(services[i]) = "DOWN"
    /\ \A i \in Listed :
           NameOf(services[i]) # "ingress_tls" => StatusOf(services[i]) = "OPERATIONAL"

\* the required names whose first record in the list is OPERATIONAL
FirstOperational ==
    {k \in 1..9 :
        \E i \in Listed :
            /\ NameOf(services[i]) = REQUIRED_SERVICES_ORDER[k]
            /\ \A j \in 1..(i - 1) : NameOf(services[j]) # REQUIRED_SERVICES_ORDER[k]
            /\ StatusOf(services[i]) = "OPERATIONAL"}

\* C2: operational_fraction returns y = 9 and x = the number of required names
\* whose first record in the list is OPERATIONAL; so 0 <= x <= y, the empty list
\* gives {0, 9} and the nine required services all OPERATIONAL give {9, 9}.
C2_OperationalFraction ==
    fraction.y # -1 =>
        /\ fraction.y = 9
        /\ fraction.x = Cardinality(FirstOperational)
        /\ 0 <= fraction.x /\ fraction.x <= fraction.y
        /\ services = <<>> => fraction.x = 0
        /\ (/\ Len(services) = 9
            /\ \A i \in Listed : StatusOf(services[i]) = "OPERATIONAL"
            /\ \A k \in 1..9 : \E j \in Listed : NameOf(services[j]) = REQUIRED_SERVICES_ORDER[k])
               => fraction.x = 9

C2_Witness ==
    /\ fraction = [x |-> 0, y |-> 9]
    /\ Len(services) = 2
    /\ NameOf(services[1]) = "kubernetes" /\ StatusOf(services[1]) = "DEGRADED"
    /\ NameOf(services[2]) = "kubernetes" /\ StatusOf(services[2]) = "OPERATIONAL"

\* C3 (as stated): a record whose name is not in REQUIRED_SERVICES_ORDER does not
\* affect the platform status: the status of the list with the record added is
\* the status of the list.
C3_NonRequiredIgnored ==
    platform_status # "not_called" =>
        \A st \in STATUSES :
            compute_platform_status(Append(services, ServiceRecord("grafana", st)), clock)
                = platform_status

----------------------------------------------------------------------------
(* GET /api/summary and GET /api/services *)

SummaryFields ==
    {"generated_at", "platform_status", "operational", "k8s", "services",
     "postgres", "proof", "links", "assets"}

Answered(endpoint) == request.endpoint = endpoint /\ response # NoResponse

\* the body summary() falls back to
FallbackShape(body) ==
    /\ body.platform_status = "DOWN"
    /\ body.operational = [x |-> 0, y |-> 9]
    /\ body.services = <<>>
    /\ body.links = EmptyDict
    /\ body.assets.tables = <<>>
    /\ "error" \in DOMAIN body

\* C9: GET /api/summary answers HTTP 200 with the nine top-level fields for
\* every deployment and every query string; when an exception leaves the main
\* path the body has platform_status DOWN, operational {x:0, y:9}, empty
\* services, links and tables, and an error field.
C9_SummaryNeverFails ==
    Answered("summary") =>
        /\ response.code = 200
        /\ SummaryFields \subseteq DOMAIN response.body
        /\ SummaryMain(env, request, clock, RunProbes(env, clock)).raised
               => FallbackShape(response.body)

\* a probe raised in the main path and summary() answered
C9_Witness ==
    /\ Answered("summary")
    /\ env.k8s = "unreachable"
    /\ k8s_summary(env, clock).t = "raise"
    /\ response.code = 200
    /\ response.body.error = "ApiException"

\* the names under which a /api/services body reports records
Reported(body) == DOMAIN body.services.f

\* C10: with the Kubernetes API unreachable, GET /api/services answers HTTP
\* 200 with the kubernetes record DOWN and the other eight services reported.
C10_ServicesSurvivesK8sOutage ==
    (Answered("services") /\ env.k8s = "unreachable") =>
        /\ response.code = 200
        /\ Get(Get(response.body.services, "kubernetes"), "status") = PyStr("DOWN")
        /\ Reported(response.body) = {SweepOrder[k] : k \in 1..Len(SweepOrder)}

----------------------------------------------------------------------------
(* One backing system failing *)

\* how each backing system fails: unreachable, refused or timing out
Failure == [k8s |-> "unreachable", pg |-> "refused", minio |-> "unreachable",
            airbyte |-> "down", n8n |-> "ui_down", zammad |-> "ui_down",
            metabase |-> "ui_down"]

\* the probe of each backing system
ProbeOf == [k8s |-> "kubernetes", pg |-> "postgres", minio |-> "minio",
            airbyte |-> "airbyte", n8n |-> "n8n", zammad |-> "zammad",
            metabase |-> "metabase"]

\* the probes that read the same backing system or the probe's result:
\* the ingress probe lists through the Kubernetes API, dbt reads MinIO
Dependents == [k8s |-> {"ingress_tls"}, pg |-> {}, minio |-> {"dbt"},
               airbyte |-> {}, n8n |-> {}, zammad |-> {}, metabase |-> {}]

Independent(d) ==
    {SweepOrder[k] : k \in 1..Len(SweepOrder)} \ ({ProbeOf[d]} \cup Dependents[d])

\* the record of probe n in the services list of a /api/summary body
Named(list, n) == list[CHOOSE k \in 1..Len(SweepOrder) : SweepOrder[k] = n]

OnlyFailure(d) == env = [Nominal EXCEPT ![d] = Failure[d]]

\* what one failure must leave of the /api/summary body
Isolated(d) ==
    LET got  == response.body.services
        good == summary(Nominal, request, clock).body.services
    IN  /\ Len(got) = Len(SweepOrder)
        /\ Get(Named(got, ProbeOf[d]), "status") \in {PyStr("DOWN"), PyStr("DEGRADED")}
        /\ \A n \in Independent(d) : Named(got, n) = Named(good, n)

\* C11: in GET /api/summary, whichever single backing system fails, the body
\* still lists the nine records, the failed probe's record is DOWN or DEGRADED,
\* and the records of the probes that do not depend on it are those of the
\* deployment where it answers.
C11_ProbeFailureIsolated ==
    \A d \in DOMAIN Failure :
        (Answered("summary") /\ OnlyFailure(d)) => Isolated(d)

----------------------------------------------------------------------------
(* The catalog and search handlers when the database fails *)

DbDown == env.pg \in {"unconfigured", "refused"}

\* a body that carries a list of tables and a pagination object, at the top
\* level (catalog) or under "assets" (search)
CompleteListing(body) ==
    \/ {"tables", "pagination"} \subseteq DOMAIN body
    \/ /\ "assets" \in DOMAIN body
       /\ {"tables", "pagination"} \subseteq DOMAIN body.assets

\* C12: GET /api/catalog/tables and GET /api/search answer HTTP 200 with a
\* body that carries a tables list and a pagination object when the database
\* is unreachable or not configured; the exception does not leave the handler.
C12_CatalogAndSearchSurviveDbFailure ==
    ((Answered("catalog_tables") \/ Answered("search")) /\ DbDown)
        => (response.code = 200 /\ CompleteListing(response.body))

----------------------------------------------------------------------------
(* The pagination objects of the responses *)

\* the pagination objects a response body carries
Paginations(body) ==
    (IF "pagination" \in DOMAIN body THEN {body.pagination} ELSE {})
    \cup (IF "assets" \in DOMAIN body /\ "pagination" \in DOMAIN body.assets
          THEN {body.assets.pagination} ELSE {})

WellFormedPagination(pg) ==
    /\ pg.page >= 1
    /\ pg.page_size >= 1 /\ pg.page_size <= 200
    /\ pg.total >= 0

\* C18: every pagination object in a response of GET /api/summary,
\* GET /api/catalog/tables or GET /api/search has page >= 1,
\* 1 <= page_size <= 200 and total >= 0, whatever the page and page_size
\* arguments and whatever the state of the backing systems.
C18_PaginationWellFormed ==
    (Answered("summary") \/ Answered("catalog_tables") \/ Answered("search"))
        => \A pg \in Paginations(response.body) : WellFormedPagination(pg)

----------------------------------------------------------------------------
(* postgres_catalog_tables and postgres_search *)

\* the call returned or raised
Called(op) == pg_call.op = op /\ pg_result # NoResult

\* postgres_catalog_tables returned a listing
GotListing == Called("postgres_catalog_tables") /\ ~pg_result.raised

\* C16: in every result of postgres_catalog_tables, pagination.total is at
\* least the number of returned tables, also when tables are created or
\* dropped between the count query and the listing query.
C16_TotalCoversPage ==
    GotListing => pg_result.pagination.total >= Len(pg_result.tables)

\* C17: for every integer page and page_size, the pagination reports
\* page = max(1, page) and page_size = min(200, max(1, page_size)), and the
\* returned slice is the one of those clamped values.
C17_PageArgumentsClamped ==
    GotListing =>
        LET p  == Max(1, pg_call.page)
            ps == Min(200, Max(1, pg_call.page_size))
        IN  /\ pg_result.pagination.page = p
            /\ pg_result.pagination.page_size = ps
            /\ pg_result.tables = Page(Db(pg_call.listed), ps, (p - 1) * ps)

\* the cap of the table listing
HardCap == 2000

\* C19: the listing applies a hard cap of 2000: pagination.total is
\* min(number of tables, 2000) and no page returns a table ranked beyond the
\* first 2000 in (schema, table) order.
C19_ListingCapped ==
    (GotListing /\ pg_call.counted = pg_call.listed) =>
        /\ pg_result.pagination.total = Min(pg_call.counted, HardCap)
        /\ \A i \in 1..Len(pg_result.tables) : pg_result.tables[i].table <= HardCap

\* C20: postgres_search with an empty or whitespace-only query returns an
\* empty match list, raises nothing and does not contact the database,
\* whatever the configuration and the availability of the database.
C20_EmptyQueryAnswersEmpty ==
    (Called("postgres_search") /\ Strip(pg_call.q) = <<>>) =>
        /\ ~pg_result.raised
        /\ pg_result.matches = <<>>
        /\ ~pg_result.connected

----------------------------------------------------------------------------
(* The catalog cache *)

\* the thread's call has returned or raised
Done(t) == calls[t].pc = "done"

\* the call was answered from the cache: it returned without fetching
Hit(t) == Done(t) /\ ~calls[t].ret.raised /\ calls[t].payload = NoPayload

\* the entry the call found was absent or older than the TTL at the time the
\* call read the clock
Expired(call) == call.hit = NoEntry \/ call.now - call.hit.ts > _CACHE_TTL_SEC

\* C13: whenever _load_catalog answers from the cache, the payload is the one
\* obtained by the most recent successful fetch of that key, under any
\* interleaving of concurrent calls (fetches still on their way to the cache
\* when the entry is read are not counted).
C13_HitIsLatestFetch ==
    \A t \in Threads : Hit(t) => calls[t].ret.payload = calls[t].expect

\* what a finished call did, by the entry it found
ServedOrFetched(call) ==
    IF Expired(call)
    THEN \/ call.ret.raised /\ call.payload = NoPayload
         \/ /\ ~call.ret.raised
            /\ call.payload.key = call.key
            /\ call.payload.version >= 1
            /\ call.ret.payload = call.payload
    ELSE ~call.ret.raised /\ call.payload = NoPayload /\ call.ret.payload = call.hit.payload

\* a call that returns what it fetched has stored it under its key with the
\* time it read
FetchedIsStored ==
    \A t \in Threads :
        (calls[t].pc = "store" /\ calls'[t].pc = "done")
            => _CACHE'[calls[t].key] =
                   [ts |-> calls[t].now, payload |-> calls'[t].ret.payload]

\* C14: a call that finds no entry, or an entry older than 60 seconds, fetches
\* from the object store and returns and stores the fetched payload or raises
\* the fetch error; a call that finds an entry of age at most 60 seconds
\* returns its payload without fetching.
C14_ExpiredNeverServed ==
    /\ [](\A t \in Threads :
              /\ calls[t].pc \in {"fetch", "store"} => Expired(calls[t])
              /\ Done(t) => ServedOrFetched(calls[t]))
    /\ [][FetchedIsStored]_vars

\* an entry older than the TTL was found and the call returned a fetched
\* payload, while the other thread was served an entry of age 60
C14_Witness ==
    \E t, u \in Threads :
        /\ Done(t) /\ calls[t].hit # NoEntry
        /\ calls[t].now - calls[t].hit.ts = _CACHE_TTL_SEC + 1
        /\ calls[t].ret.payload = calls[t].payload /\ calls[t].payload # NoPayload
        /\ Hit(u) /\ calls[u].now - calls[u].hit.ts = _CACHE_TTL_SEC

\* every entry of the cache is a whole one
WholeEntries ==
    \A k \in CacheKeys :
        \/ _CACHE[k] = NoEntry
        \/ /\ _CACHE[k].payload.key = k
           /\ _CACHE[k].payload.version >= 1
           /\ _CACHE[k].ts >= 0 /\ _CACHE[k].ts <= time

\* an entry changes only by the store of one call, which writes the time that
\* call read and the payload that call fetched
WrittenTogether ==
    \A k \in CacheKeys :
        _CACHE'[k] # _CACHE[k] =>
            \E t \in Threads :
                /\ calls[t].pc = "store" /\ calls[t].key = k /\ calls'[t].pc = "done"
                /\ calls[t].payload = Doc(k, calls[t].payload.version)
                /\ _CACHE'[k] = [ts |-> calls[t].now, payload |-> calls[t].payload]

\* a fetch that raises leaves the cache as it was
FailedFetchKeepsEntry ==
    \A t \in Threads :
        (calls[t].pc = "fetch" /\ calls'[t].pc = "done") => _CACHE' = _CACHE

\* C15: under any interleaving of concurrent _load_catalog calls, the cache
\* holds for each key no entry or an entry whose timestamp and payload were
\* written together by one fetch, and a failed fetch leaves the entry of its
\* key unchanged.
C15_EntriesWrittenWhole ==
    /\ []WholeEntries
    /\ [][WrittenTogether /\ FailedFetchKeepsEntry]_vars

\* a fetch failed on an entry that is still in the cache while the other
\* thread is about to store what it fetched for the same key
C15_Witness ==
    \E t, u \in Threads :
        /\ Done(t) /\ calls[t].ret.raised
        /\ calls[t].hit # NoEntry /\ _CACHE[calls[t].key] = calls[t].hit
        /\ calls[u].pc = "store" /\ calls[u].key = calls[t].key

----------------------------------------------------------------------------
(* Application probes without credentials *)

\* the record of a service in a /api/services body
RecordOf(name) == Get(response.body.services, name)

\* the probe found the application's UI reachable
UiReachable(name) ==
    Get(Get(Get(RecordOf(name), "evidence"), "details"), "ui_http_ok") = PyBool(TRUE)

\* no credentials of the application are configured
NoCredentials(name) ==
    LET cfg == Config(env)
    IN  CASE name = "n8n" ->
                 cfg.N8N_API_KEY = "" /\ (cfg.N8N_BASIC_USER = "" \/ cfg.N8N_BASIC_PASS = "")
          [] name = "zammad" -> cfg.ZAMMAD_API_TOKEN = ""
          [] name = "metabase" -> cfg.METABASE_API_KEY = ""

\* the reasons by which the probes report missing credentials
MissingAuthReasons == {PyStr("API auth not configured"), PyStr("API token not configured")}

\* the UI of the application answers and no credentials are configured
UiWithoutAuth(name) ==
    /\ Answered("services") /\ response.code = 200
    /\ UiReachable(name) /\ NoCredentials(name)

DegradedForAuth(name) ==
    /\ Get(RecordOf(name), "status") = PyStr("DEGRADED")
    /\ Get(RecordOf(name), "reason") \in MissingAuthReasons

\* C22 as stated: for n8n, zammad and metabase, a reachable UI without
\* configured credentials gives status DEGRADED with a reason that names the
\* missing auth.
C22_NoAuthIsDegraded ==
    \A name \in {"n8n", "zammad", "metabase"} :
        UiWithoutAuth(name) => DegradedForAuth(name)

\* C22 amended: for n8n and zammad, a reachable UI without configured
\* credentials gives status DEGRADED with a reason that names the missing
\* auth; for metabase, whose status follows the UI alone, it gives
\* OPERATIONAL with an empty reason.
C22_NoAuthIsDegradedButMetabase ==
    /\ \A name \in {"n8n", "zammad"} : UiWithoutAuth(name) => DegradedForAuth(name)
    /\ UiWithoutAuth("metabase") =>
           /\ Get(RecordOf("metabase"), "status") = PyStr("OPERATIONAL")
           /\ Get(RecordOf("metabase"), "reason") = PyStr("")

\* the three UIs answer and none of the applications has credentials
C22_Witness ==
    /\ \A name \in {"n8n", "zammad", "metabase"} : UiWithoutAuth(name)
    /\ env.n8n = "no_auth" /\ env.zammad = "no_auth"
    /\ Get(RecordOf("n8n"), "status") = PyStr("DEGRADED")

----------------------------------------------------------------------------
(* Integrations that are not configured *)

\* the probe's integration lacks its host or its credentials
NotConfigured(name) ==
    CASE name = "postgres" -> env.pg = "unconfigured"
      [] name = "minio" -> env.minio = "unconfigured"
      [] name \in {"n8n", "zammad", "metabase"} ->
             Get(Get(Get(RecordOf(name), "evidence"), "details"), "ui_url") = PyStr("")
      [] OTHER -> FALSE

\* C23: a probe whose integration is not configured (missing host or missing
\* credentials) reports status INFO, and such records do not lower the
\* platform status: when every other record is OPERATIONAL the platform is
\* OPERATIONAL.
C23_UnconfiguredIsInfo ==
    (Answered("services") /\ response.code = 200) =>
        LET names == Reported(response.body)
        IN  /\ \A name \in names :
                   NotConfigured(name) => Get(RecordOf(name), "status") = PyStr("INFO")
            /\ (\A name \in names :
                    NotConfigured(name) \/ Get(RecordOf(name), "status") = PyStr("OPERATIONAL"))
                   => response.body.status = "OPERATIONAL"

----------------------------------------------------------------------------
(* The order of the services array *)

\* the names of the records of a services array, in its order
NamesOf(list) == [i \in 1..Len(list) |-> Get(list[i], "name").s]

\* C25: the services array of a successful GET /api/summary response lists
\* the nine service records in REQUIRED_SERVICES_ORDER.
C25_SummaryInRequiredOrder ==
    (Answered("summary") /\ ~SummaryMain(env, request, clock, RunProbes(env, clock)).raised)
        => NamesOf(response.body.services) = REQUIRED_SERVICES_ORDER

----------------------------------------------------------------------------
(* The evidence details of service_obj *)

\* the details handed to service_obj, inside `evidence` or as evidence_details
SuppliedDetails ==
    IF so_args.evidence = PyNone THEN so_args.evidence_details
    ELSE IF IsDict(so_args.evidence) THEN Get(so_args.evidence, "details")
    ELSE PyNone

\* C26: in the record service_obj returns, evidence.details is a mapping, and
\* it is the empty mapping whenever the supplied details is not a mapping.
C26_DetailsIsMapping ==
    IsDict(so_ret) =>
        LET details == Get(Get(so_ret, "evidence"), "details")
        IN  /\ IsDict(details)
            /\ ~IsDict(SuppliedDetails) => details = EmptyDict

----------------------------------------------------------------------------
(* The fully healthy platform *)

\* C28: when every backing system is configured, reachable and healthy,
\* GET /api/services reports status OPERATIONAL and operational_fraction
\* x = y = 9; and the dbt record is OPERATIONAL whenever the MinIO record is
\* OPERATIONAL and a dbt artifact is found.
C28_HealthyIsOperational ==
    (Answered("services") /\ response.code = 200) =>
        /\ env = Nominal =>
               /\ response.body.status = "OPERATIONAL"
               /\ response.body.operational_fraction = [x |-> 9, y |-> 9]
        /\ (Get(RecordOf("minio"), "status") = PyStr("OPERATIONAL") /\ env.minio = "up_artifacts")
               => Get(RecordOf("dbt"), "status") = PyStr("OPERATIONAL")

----------------------------------------------------------------------------
(* The two aggregate outputs together *)

\* no two records of the list have the same name
DistinctNames ==
    \A i, j \in Listed : i # j => NameOf(services[i]) # NameOf(services[j])

\* C29: for every list of service records with pairwise distinct names, if
\* compute_platform_status returns DOWN then operational_fraction returns
\* x < y.
C29_DownIsNotAllOperational ==
    (platform_status = "DOWN" /\ fraction.y # -1 /\ DistinctNames)
        => fraction.x < fraction.y

\* the nine required records with one critical record DOWN, both outputs
\* computed
C29_Witness ==
    /\ platform_status = "DOWN"
    /\ fraction = [x |-> 8, y |-> 9]
    /\ Len(services) = 9 /\ DistinctNames
    /\ \E i \in Listed :
           NameOf(services[i]) = "postgres" /\ StatusOf(services[i]) = "DOWN"

----------------------------------------------------------------------------
(* The load on the object store *)

\* the thread's call has decided to fetch and not yet stored the result
Fetching(t) == calls[t].pc \in {"fetch", "store"}

\* C30: under any interleaving of concurrent _load_catalog calls for one
\* key, no second fetch of the key is started while a fetch of it is in
\* flight or while its entry is unexpired.
C30_OneFetchPerWindow ==
    \A t \in Threads :
        Fetching(t) =>
            /\ \A u \in Threads \ {t} : ~(Fetching(u) /\ calls[u].key = calls[t].key)
            /\ calls[t].pc = "fetch" => ~Fresh(_CACHE[calls[t].key], calls[t].now)

----------------------------------------------------------------------------
(* The order of the probe calls *)

\* the probes whose results a probe call takes as input
Needs ==
    [kubernetes |-> {}, postgres |-> {}, minio |-> {},
     ingress_tls |-> {"kubernetes"},
     airbyte |-> {"ingress_tls"}, n8n |-> {"ingress_tls"},
     zammad |-> {"ingress_tls"}, metabase |-> {"ingress_tls"},
     dbt |-> {"ingress_tls", "minio"}]

\* C24: within one GET /api/services or GET /api/summary request, the
\* ingress probe starts only after the Kubernetes probe has returned; the
\* airbyte, dbt, n8n, zammad and metabase probes start only after the ingress
\* probe has returned; the dbt probe starts only after the MinIO probe has
\* returned.
C24_DependentsWaitForInputs ==
    \A name \in sweep.started : Needs[name] \subseteq sweep.returned

\* the dbt probe of a /api/summary request is running, after the ingress and
\* the MinIO probes returned
C24_Witness ==
    /\ request.endpoint = "summary"
    /\ sweep.running /\ sweep.at <= Len(ProbeProgram) /\ ProbeProgram[sweep.at] = "dbt"
    /\ {"ingress_tls", "minio"} \subseteq sweep.returned

----------------------------------------------------------------------------
(* The tables of the catalog document *)

\* C21: within one catalog result set, (schema, table) pairs are unique: no
\* two entries returned by get_dbt_catalog_assets (after flattening nodes and
\* sources and de-duplicating) share the same schema and table.
C21_SchemaTablePairsUnique ==
    \A n \in 1..Len(assets.pages) :
        LET tables == assets.pages[n].tables
        IN  \A i, j \in 1..Len(tables) :
                (tables[i].schema = tables[j].schema /\ tables[i].table = tables[j].table)
                    => i = j

\* (schema, table, owner) of the entries of the document that have a schema
\* and a name, and that hold the search term when there is one
FilteredKeys ==
    LET term == Lower(Strip(assets.q))
        keys == {<<assets.cat.nodes[i].schema, assets.cat.nodes[i].name,
                   IF assets.cat.nodes[i].type = <<>> THEN <<"n", "o", "d", "e">>
                   ELSE assets.cat.nodes[i].type>> : i \in 1..Len(assets.cat.nodes)}
                \cup {<<assets.cat.sources[i].schema, assets.cat.sources[i].name,
                        <<"s", "o", "u", "r", "c", "e">>>> : i \in 1..Len(assets.cat.sources)}
    IN  {k \in keys : /\ k[1] # <<>> /\ k[2] # <<>>
                      /\ term # <<>> => \E c \in 1..3 : Contains(Lower(k[c]), term)}

\* the tables of the first n pages, in page order
RECURSIVE Concatenated(_)
Concatenated(n) ==
    IF n = 0 THEN <<>> ELSE Concatenated(n - 1) \o assets.pages[n].tables

\* the number of the last page that holds entries
LastPage ==
    LET ps == assets.pages[1].pagination.page_size
    IN  (Cardinality(FilteredKeys) + ps - 1) \div ps

\* C27: for a fixed catalog document, search term and page_size, the pages
\* 1..ceil(total/page_size) returned by get_dbt_catalog_assets, concatenated in
\* page order, equal the full filtered entry list sorted ascending by (schema,
\* table, owner) with every entry appearing exactly once; each page holds at
\* most page_size entries, pagination.total equals the filtered count before
\* slicing on every page, and any page beyond the last is empty.
C27_PagesCoverFilteredList ==
    assets.pages # <<>> =>
        LET all == Concatenated(LastPage)
        IN  /\ \A n \in 1..Len(assets.pages) :
                   /\ Len(assets.pages[n].tables) <= assets.pages[n].pagination.page_size
                   /\ assets.pages[n].pagination.page_size = assets.pages[1].pagination.page_size
                   /\ assets.pages[n].pagination.total = Cardinality(FilteredKeys)
                   /\ n > LastPage => assets.pages[n].tables = <<>>
            /\ Len(assets.pages) >= LastPage =>
                   /\ \A i \in 1..(Len(all) - 1) : KeyLess(all[i], all[i + 1])
                   /\ {<<all[i].schema, all[i].table, all[i].owner>> : i \in 1..Len(all)}
                          = FilteredKeys

\* a client searched for a term that three entries hold and got them on two
\* pages of two, the third page empty
C27_Witness ==
    /\ Lower(Strip(assets.q)) # <<>>
    /\ Len(assets.pages) = 3
    /\ Cardinality(FilteredKeys) = 3
    /\ Len(assets.pages[1].tables) = 2
    /\ Len(assets.pages[2].tables) = 1
    /\ assets.pages[3].tables = <<>>

====
